---- MODULE Spec2Model ----
(***************************************************************************)
(* Agora-Auth: the authentication core (AuthenticateUser with its lockout  *)
(* policy) and the session use cases (IssueSession, RefreshSession,        *)
(* RevokeSession), modelled at the granularity of their port calls;        *)
(* ValidateAccessToken, the value objects of the core (TokenLifetime,      *)
(* RawCredential, CredentialStatus), the SQL session repository,           *)
(* HmacTokenService, and the authenticate and validate_token handlers.     *)
(*                                                                         *)
(* Time is counted in minutes.  A timestamp string (RFC3339, UTC) is a     *)
(* fixed-width sequence of decimal digits, compared the way Rust compares  *)
(* String values: lexicographically.                                       *)
(***************************************************************************)
EXTENDS Integers, Sequences, FiniteSets, TLC

(* ------------------------------ bounds --------------------------------- *)
NumProcs == 2
MaxTime == 4
MaxMaxAttempts == 2
MaxLockoutMinutes == 2
MaxFailed == 3
MaxSessions == 2
MaxSecretLen == 3

Procs == 1..NumProcs

(* --------------------------- identities -------------------------------- *)
\* MockIdentityRepo::new: identifier -> UserIdentity
Identifiers == {"valid_user", "no_credential_user", "nonexistent_user"}
UserIds == {"user123", "user789"}
NoUser == "none"
Passwords == {"correct_password", "wrong_password"}

find_by_identifier(identifier) ==
    CASE identifier = "valid_user" -> "user123"
      [] identifier = "no_credential_user" -> "user789"
      [] OTHER -> NoUser

(* --------------------------- timestamps -------------------------------- *)
NoTimestamp == << >>

\* chrono::DateTime<Utc>::to_rfc3339: most significant field first, fixed width
to_rfc3339(t) == << (t \div 10) % 10, t % 10 >>

\* the instant a timestamp string denotes
RECURSIVE parse_rfc3339(_)
parse_rfc3339(s) ==
    IF s = << >> THEN 0
    ELSE 10 * parse_rfc3339(SubSeq(s, 1, Len(s) - 1)) + s[Len(s)]

\* String ordering (impl Ord for str): lexicographic, a proper prefix is smaller
RECURSIVE str_gt(_, _)
str_gt(a, b) ==
    IF a = << >> THEN FALSE
    ELSE IF b = << >> THEN TRUE
    ELSE IF Head(a) # Head(b) THEN Head(a) > Head(b)
    ELSE str_gt(Tail(a), Tail(b))

(* --------------------------- credentials ------------------------------- *)
\* PasswordHasher::hash of the mock hasher: "hashed_" ++ raw
hash(raw) == << "hashed", raw >>

\* StoredCredential::from_parts
from_parts(repr, attempts, until) ==
    [present |-> TRUE, repr |-> repr, failed_attempts |-> attempts, locked_until |-> until]

\* get_by_user_id returned None
NoCredential ==
    [present |-> FALSE, repr |-> << >>, failed_attempts |-> 0, locked_until |-> NoTimestamp]

\* MockCredentialRepo::new: the credentials map (user789 has no entry)
credentials(user_id) ==
    IF user_id = "user123" THEN from_parts(hash("correct_password"), 0, NoTimestamp)
    ELSE NoCredential

\* no entry in the repository's failed_attempts tracking map
NoEntry == -1

(* ----------------------------- results --------------------------------- *)
NoResult == [ok |-> FALSE, variant |-> "", reason |-> "", user |-> NoUser]
Ok(user_id) == [ok |-> TRUE, variant |-> "", reason |-> "", user |-> user_id]
\* AuthenticationError::user_not_found
user_not_found(reason) ==
    [ok |-> FALSE, variant |-> "UserNotFound", reason |-> reason, user |-> NoUser]
\* AuthenticationError::account_locked
account_locked(reason) ==
    [ok |-> FALSE, variant |-> "AccountLocked", reason |-> reason, user |-> NoUser]

NoInput == [identifier |-> "", password |-> ""]

VARIABLES
    max_attempts,              \* AuthenticateUser.max_attempts
    lockout_duration_minutes,  \* AuthenticateUser.lockout_duration_minutes
    clock,                     \* chrono::Utc::now(), in minutes
    failed_attempts,           \* MockCredentialRepo.failed_attempts
    locked_until,              \* MockCredentialRepo.locked_until
    pc,                        \* position of each execute() call
    input,                     \* AuthenticateUserInput of each call
    user,                      \* local `user`
    credential,                \* local `credential`
    now,                       \* local `now` of the lock check
    new_attempts,              \* local `new_attempts`
    result,                    \* what execute() returned
    wrong_since,               \* history: failed verifications per user since the
                               \* last successful one
    counted                    \* history: call p's failed verification is one of
                               \* wrong_since[user[p]]

config == << max_attempts, lockout_duration_minutes >>
repo == << failed_attempts, locked_until >>
history == << wrong_since, counted >>

(* ---------------------- CredentialRepository port ---------------------- *)
\* MockCredentialRepo::get_failed_attempts
get_failed_attempts(user_id) ==
    IF failed_attempts[user_id] = NoEntry THEN 0 ELSE failed_attempts[user_id]

\* MockCredentialRepo::get_by_user_id
get_by_user_id(user_id) ==
    LET c == credentials(user_id) IN
    IF ~c.present THEN NoCredential
    ELSE from_parts(c.repr,
                    IF failed_attempts[user_id] = NoEntry
                        THEN c.failed_attempts ELSE failed_attempts[user_id],
                    IF locked_until[user_id] = NoTimestamp
                        THEN c.locked_until ELSE locked_until[user_id])

(* ---------------------- AuthenticateUser::execute ---------------------- *)
\* Step 3: the account is locked
is_locked_Always(cred, now_str) ==
    cred.present /\ cred.locked_until # NoTimestamp

is_locked_Reversed(cred, now_str) ==
    cred.present /\ cred.locked_until # NoTimestamp /\ str_gt(now_str, cred.locked_until)

is_locked(cred, now_str) ==
    cred.present /\ cred.locked_until # NoTimestamp /\ str_gt(cred.locked_until, now_str)

\* MockPasswordHasher::verify
verify(raw, stored) == stored.repr = hash(raw)

\* Step 4: password_valid
password_valid_NoCredentialPasses(cred, password) ==
    IF cred.present THEN verify(password, cred) ELSE TRUE

password_valid(cred, password) ==
    IF cred.present THEN verify(password, cred) ELSE FALSE

\* the count written on a failed verification
next_attempts_Same(cred) ==
    IF cred.present THEN cred.failed_attempts ELSE 1

next_attempts(cred) ==
    IF cred.present THEN cred.failed_attempts + 1 ELSE 1

\* "Apply lockout if threshold reached"
lockout_reached_Above(attempts) == attempts > max_attempts

lockout_reached(attempts) == attempts >= max_attempts

\* the lock's expiry
lockout_until(t) == to_rfc3339(t + lockout_duration_minutes)

\* Step 5: the count written on success
attempts_on_success_Keep(cred) == cred.failed_attempts

attempts_on_success(cred) == 0

\* the variant returned on a failed verification
invalid_credentials_OwnVariant ==
    [ok |-> FALSE, variant |-> "MaxAttemptsExceeded",
     reason |-> "invalid credentials", user |-> NoUser]

invalid_credentials_AsLocked == account_locked("invalid credentials")

invalid_credentials == user_not_found("invalid credentials")

Idle(p) == pc[p] = "idle"

\* execute() is called; Step 1: find_by_identifier
Begin(p, identifier, password) ==
    /\ pc[p] = "idle"
    /\ input' = [input EXCEPT ![p] = [identifier |-> identifier, password |-> password]]
    /\ LET u == find_by_identifier(identifier) IN
       IF u = NoUser
       THEN /\ result' = [result EXCEPT ![p] = user_not_found("identifier not found")]
            /\ pc' = [pc EXCEPT ![p] = "done"]
            /\ UNCHANGED user
       ELSE /\ user' = [user EXCEPT ![p] = u]
            /\ pc' = [pc EXCEPT ![p] = "get"]
            /\ UNCHANGED result
    /\ UNCHANGED << config, clock, repo, credential, now, new_attempts, history >>

\* execute() is called while the counts are within the bound of the model
Start(p, identifier, password) ==
    /\ \A u \in UserIds : get_failed_attempts(u) < MaxFailed /\ wrong_since[u] < MaxFailed
    /\ Begin(p, identifier, password)

\* Step 2: get_by_user_id
GetCredential(p) ==
    /\ pc[p] = "get"
    /\ credential' = [credential EXCEPT ![p] = get_by_user_id(user[p])]
    /\ pc' = [pc EXCEPT ![p] = "check"]
    /\ UNCHANGED << config, clock, repo, input, user, now, new_attempts, result,
                    history >>

\* Steps 3 and 4: the lock check against the clock, then the verification
CheckAndVerify(p) ==
    /\ pc[p] = "check"
    /\ LET cred == credential[p]
           now_str == to_rfc3339(clock)
       IN
       /\ now' = [now EXCEPT ![p] =
                    IF cred.present /\ cred.locked_until # NoTimestamp
                        THEN now_str ELSE NoTimestamp]
       /\ IF is_locked(cred, now_str)
          THEN /\ result' = [result EXCEPT ![p] = account_locked("account locked until")]
               /\ pc' = [pc EXCEPT ![p] = "done"]
               /\ UNCHANGED << new_attempts, history >>
          ELSE IF ~password_valid(cred, input[p].password)
          THEN /\ new_attempts' = [new_attempts EXCEPT ![p] = next_attempts(cred)]
               /\ wrong_since' = [wrong_since EXCEPT ![user[p]] = @ + 1]
               /\ counted' = [counted EXCEPT ![p] = TRUE]
               /\ pc' = [pc EXCEPT ![p] = "update_failed"]
               /\ UNCHANGED result
          ELSE /\ wrong_since' = [wrong_since EXCEPT ![user[p]] = 0]
               /\ counted' = [q \in Procs |-> counted[q] /\ user[q] # user[p]]
               /\ pc' = [pc EXCEPT ![p] = "reset"]
               /\ UNCHANGED << new_attempts, result >>
    /\ UNCHANGED << config, clock, repo, input, user, credential >>

\* update_failed_attempts(&user.id, new_attempts)
UpdateFailedAttempts(p) ==
    /\ pc[p] = "update_failed"
    /\ failed_attempts' = [failed_attempts EXCEPT ![user[p]] = new_attempts[p]]
    /\ IF lockout_reached(new_attempts[p])
       THEN /\ pc' = [pc EXCEPT ![p] = "lock"]
            /\ UNCHANGED result
       ELSE /\ pc' = [pc EXCEPT ![p] = "done"]
            /\ result' = [result EXCEPT ![p] = invalid_credentials]
    /\ counted' = [counted EXCEPT ![p] = @ /\ lockout_reached(new_attempts[p])]
    /\ UNCHANGED << config, clock, locked_until, input, user, credential, now,
                    new_attempts, wrong_since >>

\* lock_until(&user.id, now + lockout_duration_minutes)
LockUntil(p) ==
    /\ pc[p] = "lock"
    /\ locked_until' = [locked_until EXCEPT ![user[p]] = lockout_until(clock)]
    /\ result' = [result EXCEPT ![p] = invalid_credentials]
    /\ pc' = [pc EXCEPT ![p] = "done"]
    /\ counted' = [counted EXCEPT ![p] = FALSE]
    /\ UNCHANGED << config, clock, failed_attempts, input, user, credential, now,
                    new_attempts, wrong_since >>

\* Step 5: update_failed_attempts(&user.id, 0); Ok
ResetFailedAttempts(p) ==
    /\ pc[p] = "reset"
    /\ failed_attempts' =
          [failed_attempts EXCEPT ![user[p]] = attempts_on_success(credential[p])]
    /\ result' = [result EXCEPT ![p] = Ok(user[p])]
    /\ pc' = [pc EXCEPT ![p] = "done"]
    /\ UNCHANGED << config, clock, locked_until, input, user, credential, now,
                    new_attempts, history >>

\* the caller takes the result; the call's locals are dropped
Return(p) ==
    /\ pc[p] = "done"
    /\ pc' = [pc EXCEPT ![p] = "idle"]
    /\ input' = [input EXCEPT ![p] = NoInput]
    /\ user' = [user EXCEPT ![p] = NoUser]
    /\ credential' = [credential EXCEPT ![p] = NoCredential]
    /\ now' = [now EXCEPT ![p] = NoTimestamp]
    /\ new_attempts' = [new_attempts EXCEPT ![p] = 0]
    /\ result' = [result EXCEPT ![p] = NoResult]
    /\ UNCHANGED << config, clock, repo, history >>

\* the system clock advances
Tick ==
    /\ clock < MaxTime
    /\ clock' = clock + 1
    /\ UNCHANGED << config, repo, pc, input, user, credential, now, new_attempts,
                    result, history >>

Step(p) ==
    \/ GetCredential(p)
    \/ CheckAndVerify(p)
    \/ UpdateFailedAttempts(p)
    \/ LockUntil(p)
    \/ ResetFailedAttempts(p)
    \/ Return(p)

(* ------------------------------ sessions ------------------------------- *)
\* the session ids the tests insert sessions under
TestSessionIds == { <<"session_123">>, <<"session_456">> }
\* MockSessionRepo::create_session (issue tests): format!("session_{}_{}", ..)
new_session_id_PerUser(user_id, counter) == << "session", user_id, 0 >>

new_session_id(user_id, counter) == << "session", user_id, counter >>

IssuedSessionIds == { new_session_id(u, c) : u \in UserIds, c \in 0..(MaxSessions - 1) }
\* the keys of the repository's sessions map
SessionIds == TestSessionIds \cup IssuedSessionIds
\* the ip_address values of IssueSessionInput
IpAddresses == {"127.0.0.1", "192.168.1.1"}
NoToken == << >>
NoHash == << >>
NoSessionId == << >>

\* MockTokenService::new (refresh tests): valid_tokens
valid_tokens == { <<"valid_refresh_token">>, <<"revoked_refresh_token">> }
\* the refresh tokens a client may present
PresentedTokens == valid_tokens \cup { <<"invalid_token">> }

\* RefreshSession / IssueSession access_token_ttl_seconds, as the tests configure it
access_token_ttl_seconds == 3600
\* IssueSession.refresh_token_ttl_days, as the tests configure it
refresh_token_ttl_days == 30

\* claims: the fields of the JSON text, in order
NoClaims == << >>
\* MockTokenService::validate_refresh_token: Ok(claims) or Err(())
validate_refresh_token_AcceptAll(token) ==
    [ok |-> TRUE,
     claims |-> << <<"sub", "user123">>, <<"type", "refresh">>, <<"exp", "9999999999">> >>]

validate_refresh_token(token) ==
    IF token \in valid_tokens
        THEN [ok |-> TRUE,
              claims |-> << <<"sub", "user123">>, <<"type", "refresh">>, <<"exp", "9999999999">> >>]
        ELSE [ok |-> FALSE, claims |-> NoClaims]

\* MockTokenService::issue_access_token / issue_refresh_token
issue_access_token(user_id, claims) == << "access_token_for", user_id >>
issue_refresh_token(user_id, claims) == << "refresh_token_for", user_id >>

\* RefreshSession::extract_user_id: the text between the first "sub":" and the
\* next quote, None without one
RECURSIVE extract_user_id(_)
extract_user_id(claims) ==
    IF claims = << >> THEN NoUser
    ELSE IF Head(claims)[1] = "sub" THEN Head(claims)[2]
    ELSE extract_user_id(Tail(claims))

\* RefreshSession::build_access_claims
build_access_claims(user_id, t) ==
    << <<"sub", user_id>>, <<"type", "access">>, <<"exp", t + access_token_ttl_seconds>> >>

\* IssueSession::build_refresh_claims
build_refresh_claims(user_id, t) ==
    << <<"sub", user_id>>, <<"type", "refresh">>,
       <<"exp", t + refresh_token_ttl_days * 86400>> >>

\* uuid::Uuid::new_v7: an id no earlier call was given (n ids generated so far)
new_v7(n) == << "uuid", n + 1 >>

\* RefreshSession::hash_token: DefaultHasher over the token's value, in hex
\* (64 bits; distinct values are taken to hash apart)
hash_token(token) == << "hash" >> \o token

\* SessionData of the session repository
SessionData(user_id, refresh_token_hash) ==
    [present |-> TRUE, user_id |-> user_id, refresh_token_hash |-> refresh_token_hash,
     revoked |-> FALSE]
NoSession ==
    [present |-> FALSE, user_id |-> NoUser, refresh_token_hash |-> NoHash, revoked |-> FALSE]

\* errors of the session use cases
NoError == [kind |-> "", variant |-> "", reason |-> ""]
TokenError(variant, reason) == [kind |-> "Token", variant |-> variant, reason |-> reason]
AuthenticationError(variant, reason) ==
    [kind |-> "Authentication", variant |-> variant, reason |-> reason]
InvariantError_AsAuthentication(reason) ==
    [kind |-> "Authentication", variant |-> "UserNotFound", reason |-> reason]

InvariantError(reason) == [kind |-> "Invariant", variant |-> "Violated", reason |-> reason]

\* what RefreshSession / RevokeSession returned
NoOutput ==
    [ok |-> FALSE, error |-> NoError, access_token |-> NoToken, refresh_token |-> NoToken,
     token_type |-> "", expires_in |-> 0, revoked |-> FALSE, session_id |-> NoSessionId]
Failed(error) == [NoOutput EXCEPT !.error = error]
\* RefreshSessionOutput
RefreshSessionOutput(access_token, refresh_token) ==
    [NoOutput EXCEPT !.ok = TRUE, !.access_token = access_token,
                     !.refresh_token = refresh_token, !.token_type = "Bearer",
                     !.expires_in = access_token_ttl_seconds]
\* IssueSessionOutput
IssueSessionOutput_RefreshTtl(access_token, refresh_token, session_id) ==
    [NoOutput EXCEPT !.ok = TRUE, !.access_token = access_token,
                     !.refresh_token = refresh_token, !.session_id = session_id,
                     !.expires_in = refresh_token_ttl_days * 86400]

IssueSessionOutput(access_token, refresh_token, session_id) ==
    [NoOutput EXCEPT !.ok = TRUE, !.access_token = access_token,
                     !.refresh_token = refresh_token, !.session_id = session_id,
                     !.expires_in = access_token_ttl_seconds]
\* RevokeSessionOutput
RevokeSessionOutput(session_id) ==
    [NoOutput EXCEPT !.ok = TRUE, !.revoked = TRUE, !.session_id = session_id]

NoIssued == [access |-> 0, refresh |-> 0]
NoSessionInput == [refresh_token |-> NoToken, session_id |-> NoSessionId,
                   refresh_token_hash |-> NoHash, user |-> NoUser, ip_address |-> ""]

VARIABLES
    rotate_refresh_tokens,  \* RefreshSession.rotate_refresh_tokens
    sessions,               \* MockSessionRepo.sessions
    revoked_sessions,       \* MockSessionRepo.revoked_sessions
    session_counter,        \* MockSessionRepo.session_counter
    uuid_count,             \* the session ids uuid::Uuid::new_v7 has generated
    s_pc,                   \* position of each session use-case call
    s_op,                   \* the use case each call runs
    s_input,                \* its input
    s_user_id,              \* RefreshSession: local `user_id`
    s_claims,               \* RefreshSession: local `claims`
    s_output,               \* what the call returned
    s_issued,               \* history: tokens the call had the TokenService issue
    refresh_log             \* history: the refreshes that returned Ok, each with
                            \* the refresh token used and the one returned

auth_vars == << max_attempts, lockout_duration_minutes, clock, failed_attempts,
                locked_until, pc, input, user, credential, now, new_attempts, result,
                wrong_since, counted >>
sess_env == << rotate_refresh_tokens, uuid_count >>
sess_repo == << sessions, revoked_sessions, session_counter >>
sess_locals == << s_pc, s_op, s_input, s_user_id, s_claims, s_output, s_issued >>
sess_vars == << rotate_refresh_tokens, sessions, revoked_sessions, session_counter,
                uuid_count, s_pc, s_op, s_input, s_user_id, s_claims, s_output, s_issued,
                refresh_log >>
VARIABLES
    v_pc,                   \* ValidateAccessToken: position of the call
    v_input,                \* ValidateAccessTokenInput.access_token
    v_output,               \* what execute returned
    d_call,                 \* the domain function applied and its arguments
    d_ret,                  \* what it returned
    auth_session,           \* the auth_session table
    sql_result,             \* what the last SessionRepositorySql query returned
    h_pc,                   \* authenticate handler: position of each request
    h_response,             \* authenticate handler: what the request was answered
    t_response              \* validate_token handler: what the request was answered

val_vars == << v_pc, v_input, v_output >>
dom_vars == << d_call, d_ret >>
sql_vars == << auth_session, sql_result >>
http_vars == << h_pc, h_response, t_response >>
rest_vars == << val_vars, dom_vars, sql_vars, http_vars >>
all_vars == << auth_vars, sess_vars, val_vars, dom_vars, sql_vars, http_vars >>

(* ----------------------- SessionRepository port ------------------------ *)
\* MockSessionRepo::find_by_refresh_token_hash: Some(Session) or None
find_by_refresh_token_hash_AnySession(h) ==
    \E id \in SessionIds :
        sessions[id].present /\ sessions[id].refresh_token_hash = h

find_by_refresh_token_hash(h) ==
    \E id \in SessionIds :
        /\ sessions[id].present
        /\ sessions[id].refresh_token_hash = h
        /\ ~sessions[id].revoked

\* MockSessionRepo::revoke_session: the sessions map afterwards
revoke_in_sessions_Toggle(session_id) ==
    [id \in SessionIds |->
        IF id = session_id /\ sessions[id].present
            THEN [sessions[id] EXCEPT !.revoked = ~@] ELSE sessions[id]]

revoke_in_sessions(session_id) ==
    [id \in SessionIds |->
        IF id = session_id /\ sessions[id].present
            THEN [sessions[id] EXCEPT !.revoked = TRUE] ELSE sessions[id]]

SessIdle == \A q \in Procs : s_pc[q] = "idle"

\* MockSessionRepo::insert_session: a session is put in the repository with the
\* hash of its refresh token, in the place of any session of the same id
InsertSession(session_id, user_id, refresh_token) ==
    /\ SessIdle
    /\ sessions' = [sessions EXCEPT ![session_id] =
                       SessionData(user_id, hash_token(refresh_token))]
    /\ UNCHANGED << sess_env, refresh_log, revoked_sessions, session_counter, sess_locals >>

(* ----------------------- IssueSession::execute ------------------------- *)
\* no session use case is between two of its port calls
SessQuiet == \A q \in Procs : s_pc[q] \in {"idle", "done"}

\* Steps 1 to 6: both tokens are issued, the refresh token is hashed, the session
\* is persisted by create_session, a session id is generated
IssueSessionWith(p, user_id, ip_address, access_token, refresh_token) ==
    /\ s_pc[p] = "idle"
    /\ session_counter < MaxSessions
    /\ LET refresh_token_hash == hash_token(refresh_token)
       IN
       \* MockSessionRepo::create_session
       /\ sessions' = [sessions EXCEPT ![new_session_id(user_id, session_counter)] =
                          SessionData(user_id, refresh_token_hash)]
       /\ session_counter' = session_counter + 1
       /\ uuid_count' = uuid_count + 1
       /\ s_output' = [s_output EXCEPT ![p] =
                          IssueSessionOutput(access_token, refresh_token, new_v7(uuid_count))]
    /\ s_op' = [s_op EXCEPT ![p] = "issue"]
    /\ s_input' = [s_input EXCEPT ![p] =
                      [NoSessionInput EXCEPT !.user = user_id, !.ip_address = ip_address]]
    /\ s_issued' = [s_issued EXCEPT ![p] = [access |-> 1, refresh |-> 1]]
    /\ s_pc' = [s_pc EXCEPT ![p] = "done"]
    /\ UNCHANGED << rotate_refresh_tokens, refresh_log, revoked_sessions, s_user_id, s_claims >>

\* with the TokenService of the IssueSession tests
IssueSession(p, user_id, ip_address) ==
    IssueSessionWith(p, user_id, ip_address,
                     issue_access_token(user_id, build_access_claims(user_id, clock)),
                     issue_refresh_token(user_id, build_refresh_claims(user_id, clock)))

(* ----------------------- RevokeSession::execute ------------------------ *)
\* Step 1: the session id to revoke: the one the input gives, none otherwise
\* (a session found by its hash does not give its id)
lookup_session_id_ByHash(session_id, refresh_token_hash) ==
    IF session_id # NoSessionId THEN session_id
    ELSE IF find_by_refresh_token_hash(refresh_token_hash)
    THEN CHOOSE id \in SessionIds :
             /\ sessions[id].present
             /\ sessions[id].refresh_token_hash = refresh_token_hash
             /\ ~sessions[id].revoked
    ELSE NoSessionId

lookup_session_id(session_id, refresh_token_hash) == session_id

RevokeSession(p, session_id, refresh_token_hash) ==
    /\ s_pc[p] = "idle"
    /\ s_op' = [s_op EXCEPT ![p] = "revoke"]
    /\ s_input' = [s_input EXCEPT ![p] =
                      [NoSessionInput EXCEPT !.session_id = session_id,
                                             !.refresh_token_hash = refresh_token_hash]]
    /\ s_pc' = [s_pc EXCEPT ![p] = "done"]
    /\ IF lookup_session_id(session_id, refresh_token_hash) # NoSessionId
       THEN \* Step 2: revoke_session(&session_id); Step 3: success
            LET sid == lookup_session_id(session_id, refresh_token_hash) IN
            /\ revoked_sessions' = revoked_sessions \cup {sid}
            /\ sessions' = revoke_in_sessions(sid)
            /\ UNCHANGED session_counter
            /\ s_output' = [s_output EXCEPT ![p] = RevokeSessionOutput(sid)]
       ELSE IF refresh_token_hash # NoHash
       THEN \* lookup by hash: an error whether or not a session is found
            /\ s_output' = [s_output EXCEPT ![p] =
                  IF find_by_refresh_token_hash(refresh_token_hash)
                  THEN Failed(AuthenticationError("UserNotFound",
                           "session lookup by token hash not yet implemented - provide session_id directly"))
                  ELSE Failed(AuthenticationError("UserNotFound", "session not found"))]
            /\ UNCHANGED sess_repo
       ELSE /\ s_output' = [s_output EXCEPT ![p] = Failed(InvariantError(
                  "either session_id or refresh_token_hash must be provided"))]
            /\ UNCHANGED sess_repo
    /\ UNCHANGED << sess_env, refresh_log, s_user_id, s_claims, s_issued >>

(* ----------------------- RefreshSession::execute ----------------------- *)
\* execute() is called; Steps 1 to 3: validate the token, extract the subject
RefreshValidated(p, refresh_token, v) ==
    /\ s_pc[p] = "idle"
    /\ s_op' = [s_op EXCEPT ![p] = "refresh"]
    /\ s_input' = [s_input EXCEPT ![p] =
                      [NoSessionInput EXCEPT !.refresh_token = refresh_token]]
    /\ LET uid == extract_user_id(v.claims)
       IN
       IF ~v.ok
       THEN /\ s_output' = [s_output EXCEPT ![p] = Failed(TokenError(
                  "SignatureInvalid", "refresh token validation failed"))]
            /\ s_pc' = [s_pc EXCEPT ![p] = "done"]
            /\ UNCHANGED << s_user_id, s_claims >>
       ELSE IF uid = NoUser
       THEN /\ s_output' = [s_output EXCEPT ![p] = Failed(TokenError(
                  "InvalidClaims", "missing subject claim"))]
            /\ s_pc' = [s_pc EXCEPT ![p] = "done"]
            /\ UNCHANGED << s_user_id, s_claims >>
       ELSE /\ s_user_id' = [s_user_id EXCEPT ![p] = uid]
            /\ s_claims' = [s_claims EXCEPT ![p] = v.claims]
            /\ s_pc' = [s_pc EXCEPT ![p] = "find"]
            /\ UNCHANGED s_output
    /\ UNCHANGED << sess_env, refresh_log, sess_repo, s_issued >>

\* with the TokenService of the RefreshSession tests
RefreshValidate(p, refresh_token) ==
    RefreshValidated(p, refresh_token, validate_refresh_token(refresh_token))

\* MockTokenService::validate_refresh_token of the IssueSession tests: the
\* tokens that start with "refresh_token_for_", those issue_refresh_token made
issued_validate_refresh_token(token) ==
    IF token # NoToken /\ Head(token) = "refresh_token_for"
        THEN [ok |-> TRUE,
              claims |-> << <<"sub", "user123">>, <<"type", "refresh">>, <<"exp", "9999999999">> >>]
        ELSE [ok |-> FALSE, claims |-> NoClaims]

\* with the TokenService of the IssueSession tests
RefreshValidateIssued(p, refresh_token) ==
    RefreshValidated(p, refresh_token, issued_validate_refresh_token(refresh_token))

\* Step 4: find_by_refresh_token_hash
RefreshFind(p) ==
    /\ s_pc[p] = "find"
    /\ IF find_by_refresh_token_hash(hash_token(s_input[p].refresh_token))
       THEN /\ s_pc' = [s_pc EXCEPT ![p] = "issue"]
            /\ UNCHANGED s_output
       ELSE /\ s_output' = [s_output EXCEPT ![p] =
                  Failed(AuthenticationError("UserNotFound", "session not found"))]
            /\ s_pc' = [s_pc EXCEPT ![p] = "done"]
    /\ UNCHANGED << sess_env, refresh_log, sess_repo, s_op, s_input, s_user_id,
                    s_claims, s_issued >>

\* Step 7: the refresh token of the output, a new one with rotation enabled
rotated_refresh_token_Always(user_id, claims) == issue_refresh_token(user_id, claims)

rotated_refresh_token(user_id, claims) ==
    IF rotate_refresh_tokens THEN issue_refresh_token(user_id, claims) ELSE NoToken

\* Steps 6 and 7: issue the access token and, with rotation, a refresh token
RefreshIssue(p) ==
    /\ s_pc[p] = "issue"
    /\ LET access_token ==
               issue_access_token(s_user_id[p], build_access_claims(s_user_id[p], clock))
           refresh_token == rotated_refresh_token(s_user_id[p], s_claims[p])
       IN
       /\ s_output' = [s_output EXCEPT ![p] =
                          RefreshSessionOutput(access_token, refresh_token)]
       /\ s_issued' = [s_issued EXCEPT ![p] =
                          [access |-> 1, refresh |-> IF rotate_refresh_tokens THEN 1 ELSE 0]]
    /\ s_pc' = [s_pc EXCEPT ![p] = "done"]
    /\ UNCHANGED << sess_env, refresh_log, sess_repo, s_op, s_input, s_user_id, s_claims >>

\* the caller takes the output and makes no repository call (the refresh_token
\* handler answers with the access token only); the call's locals are dropped
SessReturn(p) ==
    /\ s_pc[p] = "done"
    /\ s_pc' = [s_pc EXCEPT ![p] = "idle"]
    /\ s_op' = [s_op EXCEPT ![p] = "none"]
    /\ s_input' = [s_input EXCEPT ![p] = NoSessionInput]
    /\ s_user_id' = [s_user_id EXCEPT ![p] = NoUser]
    /\ s_claims' = [s_claims EXCEPT ![p] = NoClaims]
    /\ s_output' = [s_output EXCEPT ![p] = NoOutput]
    /\ s_issued' = [s_issued EXCEPT ![p] = NoIssued]
    /\ refresh_log' =
           IF s_op[p] = "refresh" /\ s_output[p].ok
               THEN refresh_log \cup {[used |-> s_input[p].refresh_token,
                                      issued |-> s_output[p].refresh_token]}
               ELSE refresh_log
    /\ UNCHANGED << sess_env, sess_repo >>

(* --------------------- ValidateAccessToken::execute -------------------- *)
NoSid == "none"
NoType == "none"
NoReason == ""

\* the decimal text of a number
RECURSIVE decimal(_)
decimal(n) == IF n < 10 THEN << n >> ELSE decimal(n \div 10) \o << n % 10 >>

\* the text after "exp": in the claims, a JSON number or (quoted) a JSON string
ExpTexts ==
    { [quoted |-> FALSE, digits |-> decimal(n)] : n \in 0..MaxTime }
        \cup { [quoted |-> TRUE, digits |-> decimal(0)] }

\* the claims a token may carry: each of sub, sid, type and exp present or not
ClaimSubjects == {"user123", "user456"}
AccessClaims ==
    { sub \o sid \o type \o exp :
        sub \in { << >> } \cup { << <<"sub", u>> >> : u \in ClaimSubjects },
        sid \in { << >>, << <<"sid", "session789">> >> },
        type \in { << >> } \cup { << <<"type", ty>> >> : ty \in {"access", "refresh"} },
        exp \in { << >> } \cup { << <<"exp", x>> >> : x \in ExpTexts } }

\* a token: whether the TokenService accepts it, and the claims it then returns
AccessTokens == [accepted : BOOLEAN, claims : AccessClaims]
NoAccessToken == [accepted |-> FALSE, claims |-> NoClaims]

\* TokenService::validate_access_token: Ok(claims) or Err(())
validate_access_token(token) ==
    IF token.accepted THEN [ok |-> TRUE, claims |-> token.claims]
    ELSE [ok |-> FALSE, claims |-> NoClaims]

\* ValidateAccessToken::extract_session_id: the text after the first "sid":"
RECURSIVE extract_session_id(_)
extract_session_id(claims) ==
    IF claims = << >> THEN NoSid
    ELSE IF Head(claims)[1] = "sid" THEN Head(claims)[2]
    ELSE extract_session_id(Tail(claims))

\* ValidateAccessToken::extract_token_type: the text after the first "type":"
RECURSIVE extract_token_type_DefaultAccess(_)
extract_token_type_DefaultAccess(claims) ==
    IF claims = << >> THEN "access"
    ELSE IF Head(claims)[1] = "type" THEN Head(claims)[2]
    ELSE extract_token_type_DefaultAccess(Tail(claims))

RECURSIVE extract_token_type(_)
extract_token_type(claims) ==
    IF claims = << >> THEN NoType
    ELSE IF Head(claims)[1] = "type" THEN Head(claims)[2]
    ELSE extract_token_type(Tail(claims))

\* str::parse::<i64> of the text after "exp": up to the next ',' or '}'
RECURSIVE digits_value(_)
digits_value(s) ==
    IF s = << >> THEN 0
    ELSE 10 * digits_value(SubSeq(s, 1, Len(s) - 1)) + s[Len(s)]

parse_i64(text) ==
    [ok |-> ~text.quoted /\ text.digits # << >>, value |-> digits_value(text.digits)]

\* ValidateAccessToken::is_expired at the instant t: true without an exp that
\* parses
RECURSIVE is_expired_Never(_, _)
is_expired_Never(claims, t) ==
    IF claims = << >> THEN TRUE
    ELSE IF Head(claims)[1] = "exp"
    THEN LET exp == parse_i64(Head(claims)[2]) IN
         IF exp.ok THEN FALSE ELSE TRUE
    ELSE is_expired_Never(Tail(claims), t)

RECURSIVE is_expired_OpenWithoutExp(_, _)
is_expired_OpenWithoutExp(claims, t) ==
    IF claims = << >> THEN FALSE
    ELSE IF Head(claims)[1] = "exp"
    THEN LET exp == parse_i64(Head(claims)[2]) IN
         IF exp.ok THEN t > exp.value ELSE FALSE
    ELSE is_expired_OpenWithoutExp(Tail(claims), t)

RECURSIVE is_expired_Inclusive(_, _)
is_expired_Inclusive(claims, t) ==
    IF claims = << >> THEN TRUE
    ELSE IF Head(claims)[1] = "exp"
    THEN LET exp == parse_i64(Head(claims)[2]) IN
         IF exp.ok THEN t >= exp.value ELSE TRUE
    ELSE is_expired_Inclusive(Tail(claims), t)

RECURSIVE is_expired(_, _)
is_expired(claims, t) ==
    IF claims = << >> THEN TRUE
    ELSE IF Head(claims)[1] = "exp"
    THEN LET exp == parse_i64(Head(claims)[2]) IN
         IF exp.ok THEN t > exp.value ELSE TRUE
    ELSE is_expired(Tail(claims), t)

\* Result<ValidateAccessTokenOutput, CoreError>
NoValOutput ==
    [ok |-> FALSE, error |-> NoError, valid |-> FALSE, user_id |-> NoUser,
     session_id |-> NoSid, reason |-> NoReason]
ValidateAccessTokenOutput_NoReason(valid, user_id, session_id, reason) ==
    [NoValOutput EXCEPT !.ok = TRUE, !.valid = valid, !.user_id = user_id,
                        !.session_id = session_id]

ValidateAccessTokenOutput(valid, user_id, session_id, reason) ==
    [NoValOutput EXCEPT !.ok = TRUE, !.valid = valid, !.user_id = user_id,
                        !.session_id = session_id, !.reason = reason]

\* Step 1, the TokenService rejected the token
token_signature_invalid_AsError ==
    [NoValOutput EXCEPT !.error = TokenError("SignatureInvalid", "token signature invalid")]

token_signature_invalid ==
    ValidateAccessTokenOutput(FALSE, NoUser, NoSid, "token signature invalid")

\* execute at the instant t (chrono::Utc::now().timestamp())
ValidateAccessToken_outcome(v, t) ==
    LET user_id == extract_user_id(v.claims)
        session_id == extract_session_id(v.claims)
    IN
    IF ~v.ok THEN token_signature_invalid
    ELSE IF extract_token_type(v.claims) # "access"
    THEN ValidateAccessTokenOutput(FALSE, user_id, session_id, "invalid token type")
    ELSE IF is_expired(v.claims, t)
    THEN ValidateAccessTokenOutput(FALSE, user_id, session_id, "token expired")
    ELSE ValidateAccessTokenOutput(TRUE, user_id, session_id, NoReason)

ValidateAccessToken_execute(token, t) ==
    ValidateAccessToken_outcome(validate_access_token(token), t)

ValidateAccessToken(token) ==
    /\ v_pc = "idle"
    /\ v_input' = token
    /\ v_output' = ValidateAccessToken_execute(token, clock)
    /\ v_pc' = "done"
    /\ UNCHANGED << auth_vars, sess_vars, dom_vars, sql_vars, http_vars >>

\* the caller takes the outcome
ValReturn ==
    /\ v_pc = "done"
    /\ v_pc' = "idle"
    /\ v_input' = NoAccessToken
    /\ v_output' = NoValOutput
    /\ UNCHANGED << auth_vars, sess_vars, dom_vars, sql_vars, http_vars >>

(* -------------------------- HmacTokenService --------------------------- *)
\* the lifetimes issue_access_token and issue_refresh_token give, in minutes
hmac_access_minutes == 60
hmac_refresh_minutes == 10080

\* serde_json::from_str::<IdentityClaims>(claims).unwrap_or_default(): the
\* user_id field of the claims text, None without one; other fields are ignored
RECURSIVE identity_user_id(_)
identity_user_id(claims) ==
    IF claims = << >> THEN NoUser
    ELSE IF Head(claims)[1] = "user_id" THEN Head(claims)[2]
    ELSE identity_user_id(Tail(claims))

\* serde_json::to_string(&claims.identity): the custom_claims of the token
custom_claims(user_id) ==
    << <<"user_id", IF user_id = NoUser THEN "null" ELSE user_id>>,
       <<"workspace_id", "null">> >>

\* HmacTokenService::encode_token: the signed JwtClaims sub, custom_claims, iat,
\* exp
encode_token(user_id, iat, exp) ==
    << "jwt", IF user_id = NoUser THEN "" ELSE user_id, custom_claims(user_id), iat, exp >>

\* HmacTokenService::issue_access_token / issue_refresh_token at the instant t
hmac_issue_access_token(subject, claims, t) ==
    encode_token(identity_user_id(claims), t, t + hmac_access_minutes)
hmac_issue_refresh_token(subject, claims, t) ==
    encode_token(identity_user_id(claims), t, t + hmac_refresh_minutes)

\* HmacTokenService::validate_access_token at the instant t: Err for an empty
\* token, one that does not decode, or one whose exp has passed; otherwise
\* Ok(custom_claims)
hmac_validate_access_token(token, t) ==
    IF token = NoToken THEN [ok |-> FALSE, claims |-> NoClaims]
    ELSE IF Head(token) # "jwt" THEN [ok |-> FALSE, claims |-> NoClaims]
    ELSE IF token[5] < t THEN [ok |-> FALSE, claims |-> NoClaims]
    ELSE [ok |-> TRUE, claims |-> token[3]]

\* HmacTokenService::validate_refresh_token
hmac_validate_refresh_token(token, t) == hmac_validate_access_token(token, t)

\* the use cases with HmacTokenService as their TokenService
HmacIssueSession(p, user_id, ip_address) ==
    IssueSessionWith(p, user_id, ip_address,
        hmac_issue_access_token(user_id, build_access_claims(user_id, clock), clock),
        hmac_issue_refresh_token(user_id, build_refresh_claims(user_id, clock), clock))

HmacRefreshValidate(p, refresh_token) ==
    RefreshValidated(p, refresh_token, hmac_validate_refresh_token(refresh_token, clock))

HmacValidateAccessToken(token) ==
    /\ v_pc = "idle"
    /\ v_input' = token
    /\ v_output' = ValidateAccessToken_outcome(hmac_validate_access_token(token, clock), clock)
    /\ v_pc' = "done"
    /\ UNCHANGED << auth_vars, sess_vars, dom_vars, sql_vars, http_vars >>

(* ---------------------------- HTTP handlers ---------------------------- *)
\* the max_attempts and lockout_duration_minutes the authenticate handler gives
\* AuthenticateUser
handler_max_attempts == 5
handler_lockout_minutes == 30

\* HttpError::status_code
status_code(error) ==
    CASE error = "Validation" -> 400
      [] error = "Unauthorized" -> 401
      [] error = "NotFound" -> 404
      [] error = "Conflict" -> 409
      [] error = "Locked" -> 423
      [] error = "Internal" -> 500

\* what a request is answered: the status, and the body of a 200
NoResponse ==
    [status |-> 0, access_token |-> NoToken, refresh_token |-> NoToken,
     session_id |-> NoSessionId, user_id |-> NoUser, sid |-> NoSid]
HttpErrorResponse(error) == [NoResponse EXCEPT !.status = status_code(error)]

\* AuthenticationError::is_account_locked
is_account_locked_Never(err) == FALSE

is_account_locked(err) == err.variant = "AccountLocked"

\* authenticate: the arm Err(CoreError::Authentication(auth_err)) of the match
\* (every error of AuthenticateUser is an AuthenticationError)
authenticate_error(auth_err) ==
    IF is_account_locked(auth_err) THEN HttpErrorResponse("Locked")
    ELSE HttpErrorResponse("Unauthorized")

\* authenticate, Step 3: AuthenticateResponse, or 500 when IssueSession failed
AuthenticateResponse(session_output) ==
    IF ~session_output.ok THEN HttpErrorResponse("Internal")
    ELSE [NoResponse EXCEPT !.status = 200,
                            !.access_token = session_output.access_token,
                            !.refresh_token = session_output.refresh_token,
                            !.session_id = session_output.session_id]

\* authenticate: request.validate(), then AuthenticateUser::execute is called
Authenticate(p, identifier, password) ==
    /\ h_pc[p] = "idle"
    /\ pc[p] = "idle"
    /\ s_pc[p] = "idle"
    /\ session_counter < MaxSessions
    /\ \A u \in UserIds : wrong_since[u] <= handler_max_attempts
    /\ IF identifier = "" \/ password = ""
       THEN /\ h_response' = [h_response EXCEPT ![p] = HttpErrorResponse("Validation")]
            /\ h_pc' = [h_pc EXCEPT ![p] = "done"]
            /\ UNCHANGED auth_vars
       ELSE /\ Begin(p, identifier, password)
            /\ h_pc' = [h_pc EXCEPT ![p] = "auth"]
            /\ UNCHANGED h_response
    /\ UNCHANGED << sess_vars, val_vars, dom_vars, sql_vars, t_response >>

\* authenticate, Step 1: AuthenticateUser::execute runs to its return
AuthenticateStep(p) ==
    /\ h_pc[p] = "auth"
    /\ \/ GetCredential(p)
       \/ CheckAndVerify(p)
       \/ UpdateFailedAttempts(p)
       \/ LockUntil(p)
       \/ ResetFailedAttempts(p)
    /\ UNCHANGED << sess_vars, rest_vars >>

\* authenticate: the match on auth_result; on Ok, Step 2, IssueSession::execute
\* with the TokenService of the application state, and Step 3
AuthenticateRespond(p) ==
    /\ h_pc[p] = "auth"
    /\ pc[p] = "done"
    /\ IF result[p].ok
       THEN /\ HmacIssueSession(p, result[p].user, "0.0.0.0")
            /\ h_response' = [h_response EXCEPT ![p] = AuthenticateResponse(s_output'[p])]
       ELSE /\ h_response' = [h_response EXCEPT ![p] = authenticate_error(result[p])]
            /\ UNCHANGED sess_vars
    /\ h_pc' = [h_pc EXCEPT ![p] = "done"]
    /\ UNCHANGED << auth_vars, val_vars, dom_vars, sql_vars, t_response >>

\* the response is sent; the use cases and their results are dropped
AuthenticateReturn(p) ==
    /\ h_pc[p] = "done"
    /\ h_pc' = [h_pc EXCEPT ![p] = "idle"]
    /\ h_response' = [h_response EXCEPT ![p] = NoResponse]
    /\ IF pc[p] = "done" THEN Return(p) ELSE UNCHANGED auth_vars
    /\ IF s_pc[p] = "done" THEN SessReturn(p) ELSE UNCHANGED sess_vars
    /\ UNCHANGED << val_vars, dom_vars, sql_vars, t_response >>

\* TokenValidationRequest: the token empty, or a token of the TokenService
TokenValidationRequests ==
    { [empty |-> TRUE, token |-> NoAccessToken] }
        \cup { [empty |-> FALSE, token |-> token] : token \in AccessTokens }

\* TokenValidationResponse
TokenValidationResponse(user_id, session_id) ==
    [NoResponse EXCEPT !.status = 200, !.user_id = user_id, !.sid = session_id]

\* validate_token: what the outcome of ValidateAccessToken is answered
validate_token_response(output) ==
    IF ~output.ok THEN HttpErrorResponse("Internal")
    ELSE IF ~output.valid THEN HttpErrorResponse("Unauthorized")
    ELSE IF output.user_id = NoUser THEN HttpErrorResponse("Internal")
    ELSE IF output.session_id = NoSid THEN HttpErrorResponse("Internal")
    ELSE TokenValidationResponse(output.user_id, output.session_id)

\* validate_token: request.validate(), ValidateAccessToken::execute, the answer
validate_token(request) ==
    /\ v_pc = "idle"
    /\ v_input' = request.token
    /\ IF request.empty
       THEN /\ v_output' = NoValOutput
            /\ t_response' = HttpErrorResponse("Validation")
       ELSE /\ v_output' = ValidateAccessToken_execute(request.token, clock)
            /\ t_response' = validate_token_response(v_output')
    /\ v_pc' = "done"
    /\ UNCHANGED << auth_vars, sess_vars, dom_vars, sql_vars, h_pc, h_response >>

\* the response is sent
ValidateTokenReturn ==
    /\ v_pc = "done"
    /\ v_pc' = "idle"
    /\ v_input' = NoAccessToken
    /\ v_output' = NoValOutput
    /\ t_response' = NoResponse
    /\ UNCHANGED << auth_vars, sess_vars, dom_vars, sql_vars, h_pc, h_response >>

(* ------------------------- core value objects -------------------------- *)
\* Option<String>
None == [some |-> FALSE, value |-> << >>]
Some(x) == [some |-> TRUE, value |-> x]
unwrap_or_default_Dropped(o) == << >>

unwrap_or_default(o) == IF o.some THEN o.value ELSE << >>

\* &str comparison: a < b, a >= b
str_lt(a, b) == str_gt(b, a)
str_ge(a, b) == ~str_gt(b, a)

\* the timestamps a lifetime is built from and asked about
Timestamps == { to_rfc3339(t) : t \in 0..MaxTime }

\* TokenLifetime::new, TokenLifetime::with_not_before
TokenLifetime_new(issued_at, expires_at) ==
    [issued_at |-> issued_at, expires_at |-> expires_at, not_before |-> None]
with_not_before(lifetime, not_before) ==
    [lifetime EXCEPT !.not_before = Some(not_before)]
TokenLifetimes ==
    { TokenLifetime_new(i, e) : i \in Timestamps, e \in Timestamps }
        \cup { with_not_before(TokenLifetime_new(i, e), nb) :
                 i \in Timestamps, e \in Timestamps, nb \in Timestamps }
NoLifetime == TokenLifetime_new(NoTimestamp, NoTimestamp)

\* TokenLifetime::is_expired
TokenLifetime_is_expired_After(lifetime, reference_time) ==
    str_gt(reference_time, lifetime.expires_at)

TokenLifetime_is_expired(lifetime, reference_time) ==
    str_ge(reference_time, lifetime.expires_at)

\* TokenLifetime::is_not_yet_valid
TokenLifetime_is_not_yet_valid(lifetime, reference_time) ==
    IF str_lt(reference_time, lifetime.issued_at) THEN TRUE
    ELSE IF lifetime.not_before.some /\ str_lt(reference_time, lifetime.not_before.value)
    THEN TRUE
    ELSE FALSE

\* TokenLifetime::is_temporally_valid
TokenLifetime_is_temporally_valid(lifetime, reference_time) ==
    /\ ~TokenLifetime_is_expired(lifetime, reference_time)
    /\ ~TokenLifetime_is_not_yet_valid(lifetime, reference_time)

\* TokenLifetime::valid_from
valid_from_IssuedAt(lifetime) == lifetime.issued_at

valid_from(lifetime) ==
    IF lifetime.not_before.some THEN lifetime.not_before.value ELSE lifetime.issued_at

\* CredentialError
NoCredentialError == [variant |-> "", at |-> << >>, detail |-> ""]
missing_required(field) == [NoCredentialError EXCEPT !.variant = "MissingRequired", !.detail = field]
insufficient_strength(reason) ==
    [NoCredentialError EXCEPT !.variant = "InsufficientStrength", !.detail = reason]
invalid_format(credential_type, reason) ==
    [NoCredentialError EXCEPT !.variant = "InvalidFormat", !.detail = reason]
revoked(revoked_at) == [NoCredentialError EXCEPT !.variant = "Revoked", !.at = revoked_at]
expired(expired_at) == [NoCredentialError EXCEPT !.variant = "Expired", !.at = expired_at]
not_yet_valid(since) == [NoCredentialError EXCEPT !.variant = "NotYetValid", !.at = since]

\* Result<(), CredentialError>
CredentialOk == [ok |-> TRUE, value |-> TRUE, error |-> NoCredentialError]
CredentialErr(error) == [ok |-> FALSE, value |-> FALSE, error |-> error]
\* a bool
Returned(b) == [ok |-> TRUE, value |-> b, error |-> NoCredentialError]

\* the secrets presented: strings of up to MaxSecretLen bytes
SecretChars == {"a", "x"}
RECURSIVE SecretsUpTo(_)
SecretsUpTo(n) ==
    IF n = 0 THEN { << >> }
    ELSE LET shorter == SecretsUpTo(n - 1) IN
         shorter \cup { Append(s, c) : s \in shorter, c \in SecretChars }
Secrets == SecretsUpTo(MaxSecretLen)

\* CredentialPolicy: min_length and format_check (None, or the check the tests
\* supply)
CredentialPolicies ==
    [min_length : 0..(MaxSecretLen + 1), format_check : {"None", "forbids_x"}]
DefaultPolicy == [min_length |-> 0, format_check |-> "None"]

\* fn forbids_x(s) of the tests: !s.contains('x')
forbids_x(s) == \A i \in 1..Len(s) : s[i] # "x"

\* RawCredential::validate: the minimum-length test
too_short_Inclusive(secret, policy) == Len(secret) <= policy.min_length

too_short(secret, policy) == Len(secret) < policy.min_length

\* RawCredential::validate
RawCredential_validate(secret, policy) ==
    IF Len(secret) = 0 THEN CredentialErr(missing_required("secret"))
    ELSE IF too_short(secret, policy)
    THEN CredentialErr(insufficient_strength("minimum length"))
    ELSE IF policy.format_check # "None" /\ ~forbids_x(secret)
    THEN CredentialErr(invalid_format("credential", "format check failed"))
    ELSE CredentialOk

\* CredentialStatus
Active == [variant |-> "Active", at |-> None]
CredentialStatuses ==
    { Active } \cup
    { [variant |-> v, at |-> o] :
        v \in {"Revoked", "Expired", "NotYetValid"},
        o \in { None } \cup { Some(ts) : ts \in Timestamps } }

\* CredentialStatus::ensure_verifiable
ensure_verifiable(status) ==
    CASE status.variant = "Active" -> CredentialOk
      [] status.variant = "Revoked" -> CredentialErr(revoked(unwrap_or_default(status.at)))
      [] status.variant = "Expired" -> CredentialErr(expired(unwrap_or_default(status.at)))
      [] OTHER -> CredentialErr(not_yet_valid(unwrap_or_default(status.at)))

\* a call of one of these functions and what it returned
NoCall ==
    [fn |-> "none", lifetime |-> NoLifetime, reference_time |-> NoTimestamp,
     secret |-> << >>, policy |-> DefaultPolicy, status |-> Active]
NoReturn == [ok |-> FALSE, value |-> FALSE, error |-> NoCredentialError]

IsExpired(lifetime, reference_time) ==
    /\ d_call = NoCall
    /\ d_call' = [NoCall EXCEPT !.fn = "is_expired", !.lifetime = lifetime,
                                !.reference_time = reference_time]
    /\ d_ret' = Returned(TokenLifetime_is_expired(lifetime, reference_time))
    /\ UNCHANGED << auth_vars, sess_vars, val_vars, sql_vars, http_vars >>

IsNotYetValid(lifetime, reference_time) ==
    /\ d_call = NoCall
    /\ d_call' = [NoCall EXCEPT !.fn = "is_not_yet_valid", !.lifetime = lifetime,
                                !.reference_time = reference_time]
    /\ d_ret' = Returned(TokenLifetime_is_not_yet_valid(lifetime, reference_time))
    /\ UNCHANGED << auth_vars, sess_vars, val_vars, sql_vars, http_vars >>

IsTemporallyValid(lifetime, reference_time) ==
    /\ d_call = NoCall
    /\ d_call' = [NoCall EXCEPT !.fn = "is_temporally_valid", !.lifetime = lifetime,
                                !.reference_time = reference_time]
    /\ d_ret' = Returned(TokenLifetime_is_temporally_valid(lifetime, reference_time))
    /\ UNCHANGED << auth_vars, sess_vars, val_vars, sql_vars, http_vars >>

Validate(secret, policy) ==
    /\ d_call = NoCall
    /\ d_call' = [NoCall EXCEPT !.fn = "validate", !.secret = secret, !.policy = policy]
    /\ d_ret' = RawCredential_validate(secret, policy)
    /\ UNCHANGED << auth_vars, sess_vars, val_vars, sql_vars, http_vars >>

EnsureVerifiable(status) ==
    /\ d_call = NoCall
    /\ d_call' = [NoCall EXCEPT !.fn = "ensure_verifiable", !.status = status]
    /\ d_ret' = ensure_verifiable(status)
    /\ UNCHANGED << auth_vars, sess_vars, val_vars, sql_vars, http_vars >>

\* the caller takes the result
DomainReturn ==
    /\ d_call # NoCall
    /\ d_call' = NoCall
    /\ d_ret' = NoReturn
    /\ UNCHANGED << auth_vars, sess_vars, val_vars, sql_vars, http_vars >>

(* ----------------------- SessionRepositorySql -------------------------- *)
\* the ids and refresh-token hashes callers store sessions under
SqlSessionIds == { new_v7(n) : n \in 0..(MaxSessions - 1) }
SqlHashes == { hash_token(issue_refresh_token(u, NoClaims)) : u \in UserIds }

\* SessionRow; revoked_at NULL is None
NoRow ==
    [present |-> FALSE, user_id |-> NoUser, refresh_token_hash |-> NoHash,
     expires_at |-> 0, revoked |-> FALSE, revoked_at |-> 0]
SessionRow(user_id, refresh_token_hash, expires_at) ==
    [present |-> TRUE, user_id |-> user_id, refresh_token_hash |-> refresh_token_hash,
     expires_at |-> expires_at, revoked |-> FALSE, revoked_at |-> 0]

\* SessionRow::is_active
is_active(row, t) == ~row.revoked /\ t < row.expires_at

\* Result<SessionRow, PersistenceError>
NoSqlResult == [called |-> FALSE, hash |-> NoHash, found |-> FALSE, id |-> NoSessionId]
SqlIdle == sql_result = NoSqlResult

\* SessionRepositorySql::create_session: INSERT INTO auth_session; a row with
\* the id already there is a constraint error
SqlCreateSession(session_id, user_id, refresh_token_hash, expires_at) ==
    /\ SqlIdle
    /\ auth_session' =
           IF auth_session[session_id].present THEN auth_session
           ELSE [auth_session EXCEPT ![session_id] =
                    SessionRow(user_id, refresh_token_hash, expires_at)]
    /\ UNCHANGED << sql_result, auth_vars, sess_vars, val_vars, dom_vars, http_vars >>

\* SessionRepositorySql::revoke_session: UPDATE ... SET revoked_at =
\* CURRENT_TIMESTAMP WHERE id = $1 AND revoked_at IS NULL
SqlRevokeSession(session_id) ==
    /\ SqlIdle
    /\ auth_session' =
           [id \in SqlSessionIds |->
               IF id = session_id /\ auth_session[id].present /\ ~auth_session[id].revoked
               THEN [auth_session[id] EXCEPT !.revoked = TRUE, !.revoked_at = clock]
               ELSE auth_session[id]]
    /\ UNCHANGED << sql_result, auth_vars, sess_vars, val_vars, dom_vars, http_vars >>

\* SessionRepositorySql::delete_expired: DELETE ... WHERE expires_at <
\* CURRENT_TIMESTAMP
SqlDeleteExpired ==
    /\ SqlIdle
    /\ auth_session' =
           [id \in SqlSessionIds |->
               IF auth_session[id].present /\ auth_session[id].expires_at < clock
               THEN NoRow ELSE auth_session[id]]
    /\ UNCHANGED << sql_result, auth_vars, sess_vars, val_vars, dom_vars, http_vars >>

\* SessionRepositorySql::find_by_refresh_token_hash: SELECT ... WHERE
\* refresh_token_hash = $1, fetch_optional: one of the rows selected, NotFound
\* without one
SqlFindByRefreshTokenHash(refresh_token_hash) ==
    /\ SqlIdle
    /\ LET selected == { id \in SqlSessionIds :
                           /\ auth_session[id].present
                           /\ auth_session[id].refresh_token_hash = refresh_token_hash }
       IN
       IF selected = {}
       THEN sql_result' = [called |-> TRUE, hash |-> refresh_token_hash,
                           found |-> FALSE, id |-> NoSessionId]
       ELSE \E id \in selected :
                sql_result' = [called |-> TRUE, hash |-> refresh_token_hash,
                               found |-> TRUE, id |-> id]
    /\ UNCHANGED << auth_session, auth_vars, sess_vars, val_vars, dom_vars, http_vars >>

\* the caller takes the result
SqlReturn ==
    /\ ~SqlIdle
    /\ sql_result' = NoSqlResult
    /\ UNCHANGED << auth_session, auth_vars, sess_vars, val_vars, dom_vars, http_vars >>

(* --------------------------- specifications ---------------------------- *)
AuthInit ==
    /\ clock = 0
    /\ failed_attempts = [u \in UserIds |-> NoEntry]
    /\ locked_until = [u \in UserIds |-> NoTimestamp]
    /\ pc = [p \in Procs |-> "idle"]
    /\ input = [p \in Procs |-> NoInput]
    /\ user = [p \in Procs |-> NoUser]
    /\ credential = [p \in Procs |-> NoCredential]
    /\ now = [p \in Procs |-> NoTimestamp]
    /\ new_attempts = [p \in Procs |-> 0]
    /\ result = [p \in Procs |-> NoResult]
    /\ wrong_since = [u \in UserIds |-> 0]
    /\ counted = [p \in Procs |-> FALSE]

SessInit0 ==
    /\ sessions = [id \in SessionIds |-> NoSession]
    /\ revoked_sessions = {}
    /\ session_counter = 0
    /\ uuid_count = 0
    /\ refresh_log = {}
    /\ s_pc = [p \in Procs |-> "idle"]
    /\ s_op = [p \in Procs |-> "none"]
    /\ s_input = [p \in Procs |-> NoSessionInput]
    /\ s_user_id = [p \in Procs |-> NoUser]
    /\ s_claims = [p \in Procs |-> NoClaims]
    /\ s_output = [p \in Procs |-> NoOutput]
    /\ s_issued = [p \in Procs |-> NoIssued]

RestInit ==
    /\ v_pc = "idle"
    /\ v_input = NoAccessToken
    /\ v_output = NoValOutput
    /\ d_call = NoCall
    /\ d_ret = NoReturn
    /\ auth_session = [id \in SqlSessionIds |-> NoRow]
    /\ sql_result = NoSqlResult
    /\ h_pc = [p \in Procs |-> "idle"]
    /\ h_response = [p \in Procs |-> NoResponse]
    /\ t_response = NoResponse

\* AuthenticateUser under every configuration, no session traffic
Init ==
    /\ max_attempts \in 1..MaxMaxAttempts
    /\ lockout_duration_minutes \in 0..MaxLockoutMinutes
    /\ AuthInit
    /\ rotate_refresh_tokens = FALSE
    /\ SessInit0
    /\ RestInit

\* one call at a time: a call starts only when no other call is in progress
SeqStart(p, identifier, password) ==
    /\ \A q \in Procs : Idle(q)
    /\ Start(p, identifier, password)

Next ==
    /\ \/ \E p \in Procs, identifier \in Identifiers, password \in Passwords :
              SeqStart(p, identifier, password)
       \/ \E p \in Procs : Step(p)
       \/ Tick
    /\ UNCHANGED << sess_vars, rest_vars >>

Spec == Init /\ [][Next]_all_vars

\* calls from concurrent request handlers against one user: their port calls
\* interleave
RaceNext ==
    /\ \/ \E p \in Procs, password \in Passwords : Start(p, "valid_user", password)
       \/ \E p \in Procs : Step(p)
       \/ Tick
    /\ UNCHANGED << sess_vars, rest_vars >>

RaceSpec == Init /\ [][RaceNext]_all_vars

\* the session use cases, one call at a time, under both rotation settings
SessInit ==
    /\ max_attempts = 1
    /\ lockout_duration_minutes = 0
    /\ AuthInit
    /\ rotate_refresh_tokens \in BOOLEAN
    /\ SessInit0
    /\ RestInit

SessNext ==
    \/ /\ \/ \E id \in TestSessionIds, t \in valid_tokens : InsertSession(id, "user123", t)
          \/ \E p \in Procs, id \in TestSessionIds \cup {NoSessionId},
                  h \in {NoHash} \cup {hash_token(t) : t \in valid_tokens} :
                 SessIdle /\ RevokeSession(p, id, h)
          \/ \E p \in Procs, t \in PresentedTokens : SessIdle /\ RefreshValidate(p, t)
          \/ \E p \in Procs : RefreshFind(p) \/ RefreshIssue(p) \/ SessReturn(p)
       /\ UNCHANGED << auth_vars, rest_vars >>
    \/ SessIdle /\ Tick /\ UNCHANGED << sess_vars, rest_vars >>

SessSpec == SessInit /\ [][SessNext]_all_vars

\* the session use cases called from concurrent request handlers: a call starts
\* while others are between their port calls
SessRaceNext ==
    \/ /\ \/ \E id \in TestSessionIds, t \in valid_tokens : InsertSession(id, "user123", t)
          \/ \E p \in Procs, id \in TestSessionIds : RevokeSession(p, id, NoHash)
          \/ \E p \in Procs, t \in valid_tokens : RefreshValidate(p, t)
          \/ \E p \in Procs : RefreshFind(p) \/ RefreshIssue(p) \/ SessReturn(p)
       /\ UNCHANGED << auth_vars, rest_vars >>
    \/ SessIdle /\ Tick /\ UNCHANGED << sess_vars, rest_vars >>

SessRaceSpec == SessInit /\ [][SessRaceNext]_all_vars

\* IssueSession and RevokeSession of stored sessions, one call at a time; a
\* caller may still hold the output of a finished call when the next is made
IssueInit == SessInit /\ rotate_refresh_tokens = FALSE

IssueNext ==
    /\ \/ \E p \in Procs, u \in UserIds, ip \in IpAddresses :
              SessQuiet /\ IssueSession(p, u, ip)
       \/ \E p \in Procs, id \in IssuedSessionIds :
              SessQuiet /\ sessions[id].present /\ RevokeSession(p, id, NoHash)
       \/ \E p \in Procs : SessReturn(p)
    /\ UNCHANGED << auth_vars, rest_vars >>

IssueSpec == IssueInit /\ [][IssueNext]_all_vars

\* ValidateAccessToken called at any instant on any token
ValNext ==
    \/ \E token \in AccessTokens : ValidateAccessToken(token)
    \/ ValReturn
    \/ v_pc = "idle" /\ Tick /\ UNCHANGED << sess_vars, rest_vars >>

ValSpec == IssueInit /\ [][ValNext]_all_vars

\* the value objects of the core, each function applied to any argument
DomainNext ==
    \/ \E lifetime \in TokenLifetimes, reference_time \in Timestamps :
           \/ IsExpired(lifetime, reference_time)
           \/ IsNotYetValid(lifetime, reference_time)
           \/ IsTemporallyValid(lifetime, reference_time)
    \/ \E secret \in Secrets, policy \in CredentialPolicies : Validate(secret, policy)
    \/ \E status \in CredentialStatuses : EnsureVerifiable(status)
    \/ DomainReturn

DomainSpec == IssueInit /\ [][DomainNext]_all_vars

\* the SQL session repository, one query at a time
SqlNext ==
    \/ \E id \in SqlSessionIds, u \in UserIds, h \in SqlHashes, e \in 1..MaxTime :
           SqlCreateSession(id, u, h, e)
    \/ \E id \in SqlSessionIds : SqlRevokeSession(id)
    \/ SqlDeleteExpired
    \/ \E h \in SqlHashes : SqlFindByRefreshTokenHash(h)
    \/ SqlReturn
    \/ SqlIdle /\ Tick /\ UNCHANGED << sess_vars, rest_vars >>

SqlSpec == IssueInit /\ [][SqlNext]_all_vars

\* a session is issued; its holder revokes it by the session_id of the output,
\* and refreshes with the refresh token of the output; sessions are also
\* revoked by the key the repository stores them under
IssueHeld(q) == s_op[q] = "issue" /\ s_pc[q] = "done"

LifecycleNext ==
    /\ \/ \E p \in Procs, u \in UserIds, ip \in IpAddresses :
              SessQuiet /\ IssueSession(p, u, ip)
       \/ \E p \in Procs, q \in Procs :
              SessQuiet /\ IssueHeld(q) /\ RevokeSession(p, s_output[q].session_id, NoHash)
       \/ \E p \in Procs, id \in IssuedSessionIds :
              SessQuiet /\ sessions[id].present /\ RevokeSession(p, id, NoHash)
       \/ \E p \in Procs, q \in Procs :
              SessQuiet /\ IssueHeld(q) /\ RefreshValidateIssued(p, s_output[q].refresh_token)
       \/ \E p \in Procs : RefreshFind(p) \/ RefreshIssue(p) \/ SessReturn(p)
    /\ UNCHANGED << auth_vars, rest_vars >>

LifecycleSpec == IssueInit /\ [][LifecycleNext]_all_vars

\* the use cases wired to HmacTokenService: sessions are issued, and the tokens
\* of an output still held are presented for refresh and for validation
\* (RefreshSession never gets past its Step 2 on a token of this service)
HeldTokens ==
    { s_output[q].access_token : q \in { r \in Procs : IssueHeld(r) } }
        \cup { s_output[q].refresh_token : q \in { r \in Procs : IssueHeld(r) } }

HmacNext ==
    \/ /\ \/ \E p \in Procs, u \in UserIds, ip \in IpAddresses :
                 SessQuiet /\ HmacIssueSession(p, u, ip)
          \/ \E p \in Procs, token \in HeldTokens \cup { <<"invalid_token">> } :
                 SessQuiet /\ HmacRefreshValidate(p, token)
          \/ \E p \in Procs : SessReturn(p)
       /\ UNCHANGED << auth_vars, rest_vars >>
    \/ \E token \in HeldTokens \cup { <<"invalid_token">> } : HmacValidateAccessToken(token)
    \/ ValReturn
    \/ SessIdle /\ v_pc = "idle" /\ Tick /\ UNCHANGED << sess_vars, rest_vars >>

HmacSpec == IssueInit /\ [][HmacNext]_all_vars

\* the authenticate handler, one request at a time, any identifier and password
HandlerInit ==
    /\ max_attempts = handler_max_attempts
    /\ lockout_duration_minutes = handler_lockout_minutes
    /\ AuthInit
    /\ rotate_refresh_tokens = FALSE
    /\ SessInit0
    /\ RestInit

HandlersIdle == \A q \in Procs : h_pc[q] = "idle"

AuthenticateNext ==
    \/ \E p \in Procs, identifier \in Identifiers \cup {""}, password \in Passwords :
           HandlersIdle /\ Authenticate(p, identifier, password)
    \/ \E p \in Procs : AuthenticateStep(p)
    \/ \E p \in Procs : AuthenticateRespond(p)
    \/ \E p \in Procs : AuthenticateReturn(p)
    \/ HandlersIdle /\ Tick /\ UNCHANGED << sess_vars, rest_vars >>

AuthenticateSpec == HandlerInit /\ [][AuthenticateNext]_all_vars

\* the validate_token handler, at any instant, on any request
ValidateTokenNext ==
    \/ \E request \in TokenValidationRequests : validate_token(request)
    \/ ValidateTokenReturn
    \/ v_pc = "idle" /\ Tick /\ UNCHANGED << sess_vars, rest_vars >>

ValidateTokenSpec == IssueInit /\ [][ValidateTokenNext]_all_vars

(* ------------------------------ claims --------------------------------- *)
HasCredential(u) == credentials(u).present

\* no call for user u is between its first and its last port call
Quiescent(u) == \A p \in Procs : user[p] = u => pc[p] \in {"idle", "done"}

\* the stored lock of user u is still in the future
LockActive(u) ==
    locked_until[u] # NoTimestamp /\ clock < parse_rfc3339(locked_until[u])

\* the lock that call p loaded had expired / was still running when p checked it
LoadedLock(p) == credential[p].present /\ credential[p].locked_until # NoTimestamp
LoadedLockRunning(p) ==
    LoadedLock(p) /\ parse_rfc3339(now[p]) < parse_rfc3339(credential[p].locked_until)
LoadedLockPassed(p) ==
    LoadedLock(p) /\ parse_rfc3339(now[p]) > parse_rfc3339(credential[p].locked_until)

\* C1: sequential calls, a user with a stored credential, 0 failed attempts and
\* no lock at the start: once max_attempts consecutive wrong-password calls have
\* returned, a lock is set, and no call for that user returns Ok while the clock
\* is before locked_until (whatever the password).
C1_LockoutAfterMaxAttempts ==
    \A p \in Procs :
        (pc[p] = "done" /\ user[p] # NoUser /\ HasCredential(user[p])) =>
            /\ wrong_since[user[p]] >= max_attempts
                   => locked_until[user[p]] # NoTimestamp
            /\ LockActive(user[p]) => ~result[p].ok

\* C1 witness: with max_attempts = 2, a call with the correct password has been
\* refused as locked after two wrong-password calls, the lock still running
C1_Witness ==
    \E p \in Procs :
        /\ pc[p] = "done" /\ user[p] = "user123"
        /\ max_attempts = 2 /\ wrong_since["user123"] = 2
        /\ input[p].password = "correct_password"
        /\ LockActive("user123")
        /\ result[p].variant = "AccountLocked"

\* C2: whatever the interleaving of the port calls, once max_attempts
\* wrong-password attempts on a user have completed with no success in between,
\* a lock has been set for that user.
C2_NoLostFailedAttempt ==
    \A u \in UserIds :
        (HasCredential(u) /\ Quiescent(u) /\ wrong_since[u] >= max_attempts)
            => locked_until[u] # NoTimestamp

\* C3: a lock is written for a user only when at least max_attempts wrong-password
\* attempts, the one of the locking call included, have been made since that
\* user's last successful authentication.
C3_NoSpuriousLockout ==
    [][\A p \in Procs :
          (pc[p] = "lock" /\ locked_until'[user[p]] # locked_until[user[p]]) =>
              wrong_since[user[p]] + (IF counted[p] THEN 0 ELSE 1) >= max_attempts]_all_vars

\* C4: a call that failed verification on an account (a stored credential) that
\* is not locked writes the stored count plus one (1 for a user with no stored
\* credential); it goes on to lock_until exactly when the written count has
\* reached max_attempts, the lock then is clock + lockout_duration_minutes, and
\* no other step writes a lock.
C4_FailureIncrementsAndLocks ==
    [][\A p \in Procs :
          /\ (pc[p] = "update_failed" /\ pc'[p] # "update_failed") =>
                /\ failed_attempts'[user[p]] =
                       IF HasCredential(user[p])
                           THEN get_failed_attempts(user[p]) + 1 ELSE 1
                /\ pc'[p] = "lock" <=> failed_attempts'[user[p]] >= max_attempts
                /\ pc'[p] # "lock" => result'[p] = user_not_found("invalid credentials")
          /\ (pc[p] = "lock" /\ pc'[p] # "lock") =>
                /\ parse_rfc3339(locked_until'[user[p]]) = clock + lockout_duration_minutes
                /\ result'[p] = user_not_found("invalid credentials")
          /\ \A u \in UserIds :
                (locked_until'[u] # locked_until[u]) =>
                    \E q \in Procs : pc[q] = "lock" /\ pc'[q] # "lock" /\ user[q] = u]_all_vars

\* C4 witness: a failed verification has just written the threshold count and set
\* a lock that is still running
C4_Witness ==
    \E p \in Procs :
        /\ pc[p] = "done" /\ user[p] = "user123"
        /\ result[p] = user_not_found("invalid credentials")
        /\ max_attempts = 2 /\ failed_attempts["user123"] = 2
        /\ credential[p].failed_attempts = 1
        /\ lockout_duration_minutes > 0 /\ LockActive("user123")

\* C5: a call that returned Ok has left the user's failed_attempts at 0, whatever
\* it was before, and returns the identity found for the identifier.
C5_SuccessResets ==
    \A p \in Procs :
        (pc[p] = "done" /\ result[p].ok) =>
            /\ failed_attempts[user[p]] = 0
            /\ result[p].user = find_by_identifier(input[p].identifier)
            /\ result[p].user # NoUser

\* C5 witness: a call succeeded on a credential it loaded with a non-zero count
C5_Witness ==
    \E p \in Procs :
        /\ pc[p] = "done" /\ result[p].ok
        /\ credential[p].failed_attempts > 0

\* C6: a call that loaded a lock timestamp later than the time of its check
\* returns AccountLocked, whatever the password.
C6_LockedAccountRefused ==
    \A p \in Procs :
        (pc[p] = "done" /\ LoadedLockRunning(p)) => result[p].variant = "AccountLocked"

\* C6 witness: the correct password refused with AccountLocked
C6_Witness ==
    \E p \in Procs :
        /\ pc[p] = "done" /\ LoadedLockRunning(p)
        /\ input[p].password = "correct_password"
        /\ result[p].variant = "AccountLocked"

\* C7: a call that loaded a lock timestamp earlier than the time of its check is
\* not refused as locked: the correct password returns Ok, a wrong password the
\* invalid-credentials error.
C7_ExpiredLockDoesNotBlock ==
    \A p \in Procs :
        (pc[p] = "done" /\ LoadedLockPassed(p)) =>
            IF input[p].password = "correct_password"
                THEN result[p] = Ok(user[p])
                ELSE result[p] = user_not_found("invalid credentials")

\* C7 witness: the correct password accepted after the lock has expired
C7_Witness ==
    \E p \in Procs :
        /\ pc[p] = "done" /\ LoadedLockPassed(p)
        /\ input[p].password = "correct_password"
        /\ result[p].ok

\* C8: an unknown identifier and a wrong password for a known identifier (not
\* locked) both end with the variant UserNotFound.
C8_SameVariant ==
    \A p \in Procs :
        pc[p] = "done" =>
            /\ find_by_identifier(input[p].identifier) = NoUser
                   => result[p].variant = "UserNotFound"
            /\ (/\ find_by_identifier(input[p].identifier) # NoUser
                /\ credential[p].present
                /\ input[p].password # "correct_password"
                /\ ~LoadedLockRunning(p))
                   => result[p].variant = "UserNotFound"

\* C8 witness: a wrong password for a known identifier answered UserNotFound
C8_Witness ==
    \E p \in Procs :
        /\ pc[p] = "done" /\ user[p] = "user123"
        /\ input[p].password = "wrong_password"
        /\ result[p].variant = "UserNotFound"

\* C9: a call for a user that exists and has no stored credential never returns
\* Ok, and has recorded a failed attempt in the repository.
C9_NoCredentialFails ==
    \A p \in Procs :
        (pc[p] = "done" /\ user[p] # NoUser /\ ~HasCredential(user[p])) =>
            /\ ~result[p].ok
            /\ result[p] = user_not_found("invalid credentials")
            /\ failed_attempts[user[p]] # NoEntry /\ failed_attempts[user[p]] >= 1

\* C9 witness: such a call has returned, for each password
C9_Witness ==
    \E p \in Procs :
        /\ pc[p] = "done" /\ user[p] = "user789"
        /\ input[p].password = "correct_password"
        /\ failed_attempts["user789"] = 1

\* a session stored under the hash of this refresh token has been revoked
RevokedSessionOf(token) ==
    \E id \in SessionIds :
        /\ sessions[id].present
        /\ sessions[id].revoked
        /\ id \in revoked_sessions
        /\ sessions[id].refresh_token_hash = hash_token(token)

\* a session stored under the hash of this refresh token has not been revoked
LiveSessionOf(token) ==
    \E id \in SessionIds :
        /\ sessions[id].present
        /\ ~sessions[id].revoked
        /\ sessions[id].refresh_token_hash = hash_token(token)

RefreshDone(p) == s_op[p] = "refresh" /\ s_pc[p] = "done"

\* the call failed and had no token issued
RefreshRefused(p) ==
    /\ ~s_output[p].ok
    /\ s_output[p].error # NoError
    /\ s_output[p].access_token = NoToken
    /\ s_output[p].refresh_token = NoToken
    /\ s_issued[p] = NoIssued

C11_NoTokenAfterRevocation ==
    [][\A p \in Procs :
          (s_pc[p] = "issue" /\ s_issued'[p] # s_issued[p])
              => LiveSessionOf(s_input[p].refresh_token)]_all_vars

\* the call of p is a RefreshSession with a refresh token that an earlier
\* RefreshSession used successfully
ReusesRefreshToken(p) ==
    /\ RefreshDone(p)
    /\ \E e \in refresh_log : e.used = s_input[p].refresh_token

\* C12: with rotation enabled, after a successful RefreshSession with refresh
\* token T a second RefreshSession with the same T fails.
C12_RotationInvalidatesUsedToken ==
    rotate_refresh_tokens =>
        \A p \in Procs : ReusesRefreshToken(p) => ~s_output[p].ok

\* C13: with rotation enabled, once a successful refresh has returned to its
\* caller and no call is in progress, a session record is stored under the hash
\* of the refresh token it issued.
C13_RotatedTokenHasSession ==
    (rotate_refresh_tokens /\ SessIdle) =>
        \A e \in refresh_log :
            \E id \in SessionIds :
                /\ sessions[id].present
                /\ sessions[id].refresh_token_hash = hash_token(e.issued)

IssueDone(p) == s_op[p] = "issue" /\ s_pc[p] = "done" /\ s_output[p].ok

\* the session records stored for a user
RecordsOf(user_id) ==
    { id \in SessionIds : sessions[id].present /\ sessions[id].user_id = user_id }

\* C16: two IssueSession calls for the same user with different ip_address
\* values have returned two distinct session_ids, and the repository holds two
\* session records for that user.
C16_TwoSessionsForOneUser ==
    \A p, q \in Procs :
        ( /\ p # q /\ IssueDone(p) /\ IssueDone(q)
          /\ s_input[p].user = s_input[q].user
          /\ s_input[p].ip_address # s_input[q].ip_address )
        => /\ s_output[p].session_id # s_output[q].session_id
           /\ s_output[p].session_id # NoSessionId
           /\ Cardinality(RecordsOf(s_input[p].user)) >= 2

\* C16 witness: the outputs of two calls for user123 from different addresses
C16_Witness ==
    \E p, q \in Procs :
        /\ p # q /\ IssueDone(p) /\ IssueDone(q)
        /\ s_input[p].user = "user123" /\ s_input[q].user = "user123"
        /\ s_input[p].ip_address = "127.0.0.1" /\ s_input[q].ip_address = "192.168.1.1"
        /\ Cardinality(RecordsOf("user123")) = 2

\* C17: an IssueSession execution has one access token and one refresh token
\* issued, adds exactly one session record, for the input user and under the
\* hash of the refresh token it returns, changes no other record, and returns
\* expires_in = access_token_ttl_seconds.
C17_IssueSessionEffect ==
    [][\A p \in Procs :
          (s_pc[p] = "idle" /\ s_op'[p] = "issue") =>
              /\ s_issued'[p].access = 1 /\ s_issued'[p].refresh = 1
              /\ s_output'[p].ok
              /\ s_output'[p].access_token # NoToken
              /\ s_output'[p].refresh_token # NoToken
              /\ s_output'[p].expires_in = access_token_ttl_seconds
              /\ \E id \in SessionIds :
                    /\ ~sessions[id].present
                    /\ sessions'[id] = SessionData(s_input'[p].user,
                                                   hash_token(s_output'[p].refresh_token))
                    /\ \A other \in SessionIds \ {id} : sessions'[other] = sessions[other]]_all_vars

\* C17 witness: a first IssueSession for user789 has returned; its record is the
\* only one stored
C17_Witness ==
    \E p \in Procs :
        /\ IssueDone(p) /\ s_input[p].user = "user789"
        /\ s_output[p].expires_in = 3600
        /\ RecordsOf("user789") = { new_session_id("user789", 0) }
        /\ sessions[new_session_id("user789", 0)].refresh_token_hash =
               hash_token(s_output[p].refresh_token)

\* the step in which p's RevokeSession::execute runs
RevokeRuns(p) == s_pc[p] = "idle" /\ s_op'[p] = "revoke"

\* C18: a RevokeSession given neither a session_id nor a refresh_token_hash fails
\* with an InvariantError and leaves the repository as it was.
C18_MissingInputIsInvariantError ==
    [][\A p \in Procs :
          ( /\ RevokeRuns(p)
            /\ s_input'[p].session_id = NoSessionId
            /\ s_input'[p].refresh_token_hash = NoHash )
          => /\ ~s_output'[p].ok
             /\ ~s_output'[p].revoked
             /\ s_output'[p].error.kind = "Invariant"
             /\ sessions' = sessions
             /\ revoked_sessions' = revoked_sessions]_all_vars

\* C18 witness: such a call has failed with the InvariantError while an
\* unrevoked session is stored
C18_Witness ==
    \E p \in Procs :
        /\ s_op[p] = "revoke" /\ s_pc[p] = "done"
        /\ s_input[p].session_id = NoSessionId
        /\ s_input[p].refresh_token_hash = NoHash
        /\ s_output[p].error = InvariantError(
               "either session_id or refresh_token_hash must be provided")
        /\ \E id \in SessionIds : sessions[id].present /\ ~sessions[id].revoked

\* C19: a RevokeSession by session_id on a session that is already revoked
\* succeeds with revoked = true and that session_id, and leaves the session
\* revoked and the repository as it was.
C19_RevokeIsIdempotent ==
    [][\A p \in Procs : \A id \in SessionIds :
          ( /\ RevokeRuns(p)
            /\ s_input'[p].session_id = id
            /\ sessions[id].present /\ sessions[id].revoked
            /\ id \in revoked_sessions )
          => /\ s_output'[p] = RevokeSessionOutput(id)
             /\ s_output'[p].ok /\ s_output'[p].revoked
             /\ sessions'[id].revoked
             /\ sessions' = sessions
             /\ revoked_sessions' = revoked_sessions]_all_vars

\* C19 witness: two calls have revoked the same stored session, one after the
\* other, and both hold a success
C19_Witness ==
    \E p, q \in Procs : \E id \in SessionIds :
        /\ p # q
        /\ s_op[p] = "revoke" /\ s_pc[p] = "done"
        /\ s_op[q] = "revoke" /\ s_pc[q] = "done"
        /\ s_output[p] = RevokeSessionOutput(id)
        /\ s_output[q] = RevokeSessionOutput(id)
        /\ sessions[id].present /\ sessions[id].revoked

\* C20: a RevokeSession given a refresh_token_hash and no session_id fails with
\* an AuthenticationError and leaves the repository as it was, whether or not
\* a session is stored under that hash.
C20_RevokeByHashUnsupported ==
    [][\A p \in Procs :
          ( /\ RevokeRuns(p)
            /\ s_input'[p].session_id = NoSessionId
            /\ s_input'[p].refresh_token_hash # NoHash )
          => /\ ~s_output'[p].ok
             /\ ~s_output'[p].revoked
             /\ s_output'[p].error.kind = "Authentication"
             /\ sessions' = sessions
             /\ revoked_sessions' = revoked_sessions]_all_vars

\* C20 witness: the call was given the hash of a stored, unrevoked session and
\* failed; the session is still unrevoked
C20_Witness ==
    \E p \in Procs : \E id \in SessionIds :
        /\ s_op[p] = "revoke" /\ s_pc[p] = "done"
        /\ s_input[p].session_id = NoSessionId
        /\ sessions[id].present /\ ~sessions[id].revoked
        /\ sessions[id].refresh_token_hash = s_input[p].refresh_token_hash
        /\ s_output[p].error.kind = "Authentication"
        /\ revoked_sessions = {}

\* a ValidateAccessToken call has returned and its outcome is still held
ValidateDone == v_pc = "done"
\* the claims text carries the field `name` with the value `value`
Declares(claims, name, value) ==
    \E i \in 1..Len(claims) : claims[i][1] = name /\ claims[i][2] = value
\* the claims text carries a field `name`
Carries(claims, name) == \E i \in 1..Len(claims) : claims[i][1] = name
\* the claims carry an exp that is a number lying before the instant t
ExpBefore(claims, t) ==
    \E i \in 1..Len(claims) :
        /\ claims[i][1] = "exp"
        /\ ~claims[i][2].quoted
        /\ \E n \in 0..MaxTime : claims[i][2].digits = decimal(n) /\ n < t

\* C21: when the TokenService rejects the token, ValidateAccessToken returns
\* Ok with valid = false, reason "token signature invalid", no user_id and no
\* session_id; it does not return an error
C21_RejectedTokenIsReportedAsData ==
    (ValidateDone /\ ~v_input.accepted) =>
        /\ v_output.ok
        /\ v_output.error = NoError
        /\ ~v_output.valid
        /\ v_output.reason = "token signature invalid"
        /\ v_output.user_id = NoUser
        /\ v_output.session_id = NoSid
C21_Witness ==
    ValidateDone /\ ~v_input.accepted /\ Carries(v_input.claims, "sub") /\ v_output.ok

\* the claims carry an exp that is a number not before the instant t
ExpNotBefore(claims, t) ==
    \E i \in 1..Len(claims) :
        /\ claims[i][1] = "exp"
        /\ ~claims[i][2].quoted
        /\ \E n \in 0..MaxTime : claims[i][2].digits = decimal(n) /\ n >= t

\* C22: when the claims of an accepted token declare a type other than
\* "access", or no type, the outcome has valid = false, whatever exp is
C22_OnlyAccessTypeIsValid ==
    (ValidateDone /\ v_input.accepted /\ ~Declares(v_input.claims, "type", "access")) =>
        v_output.ok /\ ~v_output.valid
C22_Witness ==
    /\ ValidateDone
    /\ v_input.accepted
    /\ Declares(v_input.claims, "type", "refresh")
    /\ ExpNotBefore(v_input.claims, clock)
    /\ ~v_output.valid

\* C23: an accepted token of type "access" whose exp lies in the past has the
\* outcome valid = false with reason "token expired"
C23_ExpiredAccessTokenIsInvalid ==
    (/\ ValidateDone
     /\ v_input.accepted
     /\ Declares(v_input.claims, "type", "access")
     /\ ExpBefore(v_input.claims, clock)) =>
        v_output.ok /\ ~v_output.valid /\ v_output.reason = "token expired"
C23_Witness ==
    /\ ValidateDone
    /\ v_input.accepted
    /\ Declares(v_input.claims, "type", "access")
    /\ ExpBefore(v_input.claims, clock)
    /\ v_output.reason = "token expired"
\* C23 as stated, for every accepted token whose exp lies in the past
C23_AsStated ==
    (ValidateDone /\ v_input.accepted /\ ExpBefore(v_input.claims, clock)) =>
        ~v_output.valid /\ v_output.reason = "token expired"

CallIssuedAt == parse_rfc3339(d_call.lifetime.issued_at)
CallExpiresAt == parse_rfc3339(d_call.lifetime.expires_at)
CallNotBefore == parse_rfc3339(d_call.lifetime.not_before.value)
CallTime == parse_rfc3339(d_call.reference_time)

CallValidFrom == parse_rfc3339(valid_from(d_call.lifetime))

FormatCheckFails ==
    /\ d_call.policy.format_check = "forbids_x"
    /\ \E i \in 1..Len(d_call.secret) : d_call.secret[i] = "x"

\* C27: validate is Err exactly when the secret is empty, shorter than
\* min_length, or fails the format check the policy sets; the error is
\* MissingRequired, InsufficientStrength, InvalidFormat, the first that applies
C27_ValidateErrors ==
    d_call.fn = "validate" =>
        /\ ~d_ret.ok <=> \/ Len(d_call.secret) = 0
                         \/ Len(d_call.secret) < d_call.policy.min_length
                         \/ FormatCheckFails
        /\ d_ret.error.variant =
              IF Len(d_call.secret) = 0 THEN "MissingRequired"
              ELSE IF Len(d_call.secret) < d_call.policy.min_length
              THEN "InsufficientStrength"
              ELSE IF FormatCheckFails THEN "InvalidFormat"
              ELSE ""
C27_Witness ==
    /\ d_call.fn = "validate"
    /\ Len(d_call.secret) = d_call.policy.min_length
    /\ Len(d_call.secret) > 0
    /\ FormatCheckFails
    /\ d_ret.error.variant = "InvalidFormat"

\* C28: ensure_verifiable is Ok only for Active; for Revoked, Expired and
\* NotYetValid it is the error of the same name, carrying the timestamp of the
\* status (the empty string when the status has none)
C28_OnlyActiveIsVerifiable ==
    d_call.fn = "ensure_verifiable" =>
        /\ d_ret.ok <=> d_call.status.variant = "Active"
        /\ d_call.status.variant # "Active" =>
              /\ d_ret.error.variant = d_call.status.variant
              /\ d_call.status.at.some => d_ret.error.at = d_call.status.at.value
              /\ ~d_call.status.at.some => d_ret.error.at = << >>
C28_Witness ==
    /\ d_call.fn = "ensure_verifiable"
    /\ d_call.status.variant = "Expired"
    /\ d_call.status.at.some
    /\ ~d_ret.ok
    /\ d_ret.error.at = d_call.status.at.value

\* C29: the session find_by_refresh_token_hash returns is neither revoked nor
\* expired
C29_FindReturnsOnlyActiveSessions ==
    sql_result.found => is_active(auth_session[sql_result.id], clock)

\* the sessions stored under the hash of the refresh token call q was given
RecordsOfIssued(q) ==
    { id \in SessionIds :
        /\ sessions[id].present
        /\ sessions[id].refresh_token_hash = hash_token(s_output[q].refresh_token) }

\* C30: once RevokeSession has been run with the session_id of an IssueSession
\* output, no RefreshSession with the refresh token of that output succeeds
\* (the session that call persisted being the only one under that token)
C30_RevokeByIssuedIdEndsRefresh ==
    [][\A p \in Procs, q \in Procs :
          (/\ IssueHeld(q)
           /\ s_output[q].session_id \in revoked_sessions
           /\ Cardinality(RecordsOfIssued(q)) = 1
           /\ s_op[p] = "refresh"
           /\ s_input[p].refresh_token = s_output[q].refresh_token
           /\ s_pc[p] # "done"
           /\ s_pc'[p] = "done")
          => ~s_output'[p].ok]_all_vars

\* call p ran RefreshSession with the refresh token call q was issued, while
\* the TokenService accepts that token and the session q persisted is live
RefreshOfHeld(p, q) ==
    /\ IssueHeld(q)
    /\ s_op[p] = "refresh"
    /\ s_pc[p] = "done"
    /\ s_input[p].refresh_token = s_output[q].refresh_token
    /\ s_output[q].refresh_token[5] >= clock
    /\ LiveSessionOf(s_output[q].refresh_token)

\* C31: RefreshSession with a refresh token IssueSession returned, the token
\* accepted by the TokenService and its session live, succeeds with an access
\* token for the user the session was issued for
C31_IssuedRefreshTokenIsUsable ==
    \A p \in Procs, q \in Procs :
        RefreshOfHeld(p, q) =>
            /\ s_output[p].ok
            /\ s_output[p].access_token # NoToken
            /\ s_user_id[p] = s_input[q].user

\* call q issued a session whose access token is the one validated last,
\* before the exp the TokenService gave it
ValidationOfHeld(q) ==
    /\ IssueHeld(q)
    /\ ValidateDone
    /\ v_input = s_output[q].access_token
    /\ clock < s_output[q].access_token[5]

\* C32: an access token IssueSession returned, validated through the same
\* TokenService before its exp, is reported valid with the user id of the
\* user the session was issued for
C32_IssuedAccessTokenValidates ==
    \A q \in Procs :
        ValidationOfHeld(q) =>
            /\ v_output.ok
            /\ v_output.valid
            /\ v_output.user_id = s_input[q].user

\* the claims carry an exp that is the number n
ExpAt(claims, n) ==
    \E i \in 1..Len(claims) :
        /\ claims[i][1] = "exp"
        /\ ~claims[i][2].quoted
        /\ claims[i][2].digits = decimal(n)
\* the last validation was of an accepted token of type access with exp n
AccessValidationWithExp(n) ==
    /\ ValidateDone
    /\ v_input \in AccessTokens
    /\ v_input.accepted
    /\ Declares(v_input.claims, "type", "access")
    /\ ExpAt(v_input.claims, n)
\* the lifetime of a token that expires at n, and its verdict at the clock
ExpiredByLifetime(n) ==
    TokenLifetime_is_expired(TokenLifetime_new(to_rfc3339(0), to_rfc3339(n)),
                             to_rfc3339(clock))

\* C33: ValidateAccessToken reports an access token expired exactly when the
\* clock is after its exp; that is the verdict of TokenLifetime::is_expired at
\* every instant but exp itself, where the token is still reported valid
C33_ExpiredIffAfterExp ==
    \A n \in 0..MaxTime :
        AccessValidationWithExp(n) =>
            /\ v_output.ok
            /\ ~v_output.valid <=> clock > n
            /\ ~v_output.valid => v_output.reason = "token expired"
            /\ clock # n => (~v_output.valid <=> ExpiredByLifetime(n))
            /\ clock = n => ExpiredByLifetime(n) /\ v_output.valid
C33_Witness ==
    /\ clock > 0
    /\ AccessValidationWithExp(clock)
    /\ v_output.valid
    /\ ExpiredByLifetime(clock)
\* C33 as stated: the verdict of TokenLifetime::is_expired at every instant
C33_AsStated ==
    \A n \in 0..MaxTime :
        AccessValidationWithExp(n) =>
            (~v_output.valid <=> ExpiredByLifetime(n))

\* call p is a RevokeSession that returned revoked = true
RevokeReturnedTrue(p) ==
    /\ s_op[p] = "revoke"
    /\ s_pc[p] = "done"
    /\ s_output[p].ok
    /\ s_output[p].revoked

C35_ThresholdImpliesLockSet ==
    \A u \in UserIds :
        (Quiescent(u) /\ failed_attempts[u] >= max_attempts) =>
            locked_until[u] # NoTimestamp
\* C35 witness: the count is above max_attempts and the lock stored has passed
C35_Witness ==
    /\ Quiescent("user123")
    /\ failed_attempts["user123"] > max_attempts
    /\ locked_until["user123"] # NoTimestamp
    /\ clock > parse_rfc3339(locked_until["user123"])

\* call p loaded a lock that was no longer running when p checked it, with the
\* count that set the lock still stored, and presented a wrong password
WrongAfterExpiredLock(p) ==
    /\ LoadedLock(p)
    /\ ~LoadedLockRunning(p)
    /\ credential[p].failed_attempts >= max_attempts
    /\ input[p].password # "correct_password"

\* C36: the passing of time leaves failed_attempts alone; the count only grows
\* by one on a failed verification or returns to 0 on a successful call; a
\* wrong password presented after the lock has expired, the count still
\* stored, raises the count above max_attempts and sets a lock that runs from
\* that call
C36_ExpiredLockKeepsCount ==
    [][/\ \A u \in UserIds :
              (failed_attempts'[u] # failed_attempts[u]) =>
                  \E p \in Procs :
                      /\ user[p] = u
                      /\ \/ /\ pc[p] = "reset"
                            /\ failed_attempts'[u] = 0
                            /\ result'[p].ok
                         \/ /\ pc[p] = "update_failed"
                            /\ failed_attempts'[u] = get_failed_attempts(u) + 1
       /\ \A p \in Procs :
              (pc[p] # "done" /\ pc'[p] = "done" /\ WrongAfterExpiredLock(p)) =>
                  /\ result'[p] = user_not_found("invalid credentials")
                  /\ failed_attempts'[user[p]] = credential[p].failed_attempts + 1
                  /\ failed_attempts'[user[p]] > max_attempts
                  /\ parse_rfc3339(locked_until'[user[p]]) >=
                         parse_rfc3339(now[p]) + lockout_duration_minutes
                  /\ parse_rfc3339(locked_until'[user[p]]) = clock + lockout_duration_minutes
      ]_all_vars
\* C36 witness: a wrong password after the lock had expired has ended with the
\* count above max_attempts and a lock running again
C36_Witness ==
    \E p \in Procs :
        /\ pc[p] = "done"
        /\ WrongAfterExpiredLock(p)
        /\ LoadedLockPassed(p)
        /\ failed_attempts[user[p]] > max_attempts
        /\ LockActive(user[p])

\* C37: the step with which a call ends for an unknown identifier or for a
\* locked account follows no verification and writes nothing: before it the
\* repository holds what the call loaded, after it failed_attempts and
\* locked_until of every user are what they were
C37_RefusedCallsWriteNothing ==
    [][\A p \in Procs :
          (/\ pc[p] # "done"
           /\ pc'[p] = "done"
           /\ \/ result'[p].reason = "identifier not found"
              \/ result'[p].variant = "AccountLocked") =>
              /\ pc[p] \in {"idle", "check"}
              /\ failed_attempts' = failed_attempts
              /\ locked_until' = locked_until
              /\ wrong_since' = wrong_since
              /\ pc[p] = "check" =>
                    /\ get_failed_attempts(user[p]) = credential[p].failed_attempts
                    /\ locked_until[user[p]] = credential[p].locked_until
      ]_all_vars
\* C37 witness: the correct password was refused as locked, the count and the
\* lock what the call loaded
C37_Witness ==
    \E p \in Procs :
        /\ pc[p] = "done"
        /\ result[p].variant = "AccountLocked"
        /\ input[p].password = "correct_password"
        /\ failed_attempts[user[p]] = credential[p].failed_attempts
        /\ locked_until[user[p]] = credential[p].locked_until
        /\ LockActive(user[p])

\* the claims carry an exp that is not a JSON number
ExpUnparsable(claims) ==
    \E i \in 1..Len(claims) : claims[i][1] = "exp" /\ claims[i][2].quoted
\* the last validation was of an accepted token of type access whose claims
\* have no exp, or an exp that does not parse as an integer
AccessValidationWithoutExp ==
    /\ ValidateDone
    /\ v_input \in AccessTokens
    /\ v_input.accepted
    /\ Declares(v_input.claims, "type", "access")
    /\ ~Carries(v_input.claims, "exp") \/ ExpUnparsable(v_input.claims)

\* C38: claims of type access with no exp, or with an exp that does not parse
\* as an integer, are reported expired: valid = false, reason "token expired"
C38_FailsClosedWithoutExp ==
    AccessValidationWithoutExp =>
        /\ v_output.ok
        /\ ~v_output.valid
        /\ v_output.reason = "token expired"
C38_Witness ==
    /\ AccessValidationWithoutExp
    /\ ExpUnparsable(v_input.claims)
    /\ Carries(v_input.claims, "sub")
    /\ ~v_output.valid
C38_WitnessNoExp ==
    /\ AccessValidationWithoutExp
    /\ ~Carries(v_input.claims, "exp")
    /\ ~v_output.valid

\* request p of the authenticate handler gets its answer in this step, after
\* AuthenticateUser has returned
Answers(p) == h_pc[p] = "auth" /\ h_pc'[p] = "done"

\* C39: the authenticate handler runs IssueSession only in the step that
\* answers a request whose AuthenticateUser returned Ok, for the user it
\* returned; a request whose AuthenticateUser returned an error leaves the
\* session repository and the session use case untouched, carries no token, and
\* is answered 423 for AccountLocked and 401 otherwise
C39_IssueOnlyAfterSuccess ==
    [][/\ \A p \in Procs :
              (s_pc'[p] # s_pc[p] /\ s_pc'[p] = "done") =>
                  /\ Answers(p)
                  /\ pc[p] = "done"
                  /\ result[p].ok
                  /\ s_op'[p] = "issue"
                  /\ s_input'[p].user = result[p].user
       /\ (sessions' # sessions \/ session_counter' # session_counter
             \/ uuid_count' # uuid_count) =>
              \E p \in Procs : Answers(p) /\ pc[p] = "done" /\ result[p].ok
       /\ \A p \in Procs :
              (Answers(p) /\ ~result[p].ok) =>
                  /\ sess_vars' = sess_vars
                  /\ s_issued'[p] = NoIssued
                  /\ h_response'[p].access_token = NoToken
                  /\ h_response'[p].refresh_token = NoToken
                  /\ h_response'[p].status =
                         IF result[p].variant = "AccountLocked" THEN 423 ELSE 401
       /\ \A p \in Procs :
              (Answers(p) /\ result[p].ok) =>
                  /\ h_response'[p].status = 200
                  /\ h_response'[p].access_token = s_output'[p].access_token
                  /\ s_issued'[p] = [access |-> 1, refresh |-> 1]
      ]_all_vars
\* C39 witness: the correct password of a locked account answered 423, no
\* session issued for the request
C39_Witness ==
    \E p \in Procs :
        /\ h_pc[p] = "done"
        /\ input[p].password = "correct_password"
        /\ result[p].variant = "AccountLocked"
        /\ h_response[p].status = 423
        /\ s_pc[p] = "idle"
        /\ failed_attempts[user[p]] = handler_max_attempts
\* a wrong password answered 401 after a request that was answered with tokens
C39_WitnessUnauthorized ==
    \E p \in Procs :
        /\ h_pc[p] = "done"
        /\ result[p].reason = "invalid credentials"
        /\ h_response[p].status = 401
        /\ session_counter > 0

\* the claims IssueSession::build_access_claims gives a token: sub, type
\* access and an exp, no sid
IssuedShape(claims) ==
    /\ Carries(claims, "sub")
    /\ Declares(claims, "type", "access")
    /\ ~Carries(claims, "sid")
    /\ \E n \in 0..MaxTime : ExpAt(claims, n) /\ clock <= n

\* C40: the validate_token handler answers a token reported valid with 200 and
\* the user_id and session_id of the outcome, a token reported invalid or
\* expired with 401; an accepted, unexpired token with the claims IssueSession
\* builds is answered 200
C40_ValidTokenAnswered200 ==
    (ValidateDone /\ v_output.ok) =>
        /\ v_output.valid =>
              /\ t_response.status = 200
              /\ t_response.user_id = v_output.user_id
              /\ t_response.sid = v_output.session_id
        /\ ~v_output.valid => t_response.status = 401
        /\ (v_input.accepted /\ IssuedShape(v_input.claims)) => t_response.status = 200

====
